---- MODULE Spec2Model ----
(***************************************************************************)
(* Model of scripts/autoland_trigger_on_land_objektotientiert.py:          *)
(* VideoRecorder, MavlinkClient, RunwayDetector and the FlightRecorder     *)
(* control loop (setup, run, teardown).                                    *)
(*                                                                         *)
(* Spec is the whole program; SpecRotation is the loop of a run without a  *)
(* link on a finer clock; SpecRecorder is the VideoRecorder on its own.    *)
(*                                                                         *)
(* Time is in whole seconds.  run() is modelled statement by statement:    *)
(* pc names the statement that is executed next, so that a                 *)
(* KeyboardInterrupt or another exception can strike between any two       *)
(* statements, also inside the settle waits of the landing sequence.       *)
(***************************************************************************)
EXTENDS Integers, Sequences, FiniteSets, TLC

\* ------------------------------------------------------------------ bounds
MaxTime == 80          \* the clock stops advancing here
MaxSeq  == 3            \* largest MISSION_CURRENT.seq the vehicle reports
MaxRearm == 1           \* re-arms after a search timeout that are counted
MaxDt   == 2            \* longest time between two iterations in SpecRotation
MaxLandings == 1        \* landing sequences of a run that are counted
MaxN    == 8            \* _odd_int is called with |n|, min_val, max_val <= MaxN
MaxTasks   == 2         \* rows of tasks, and the task ids used in calls
MaxEntries == 2         \* rows of time_entries
MaxFrames  == 3         \* calibrate is called with frames <= MaxFrames
MaxTimeout == 3         \* and timeout <= MaxTimeout sleeps of 0.02 s

\* ----------------------------------------------------------- configuration
SEGMENT_SECONDS   == 15
ROTATE_ON_EVENTS  == TRUE
MIN_WHITE_AREA    == 500
ASPECT_MIN        == 3
ANGLE_TOL_DEG     == 60
SCALE_RING_BY_TARGET == TRUE
RING_OUTER_PX     == 15
RING_INNER_PX     == 7
RING_SCALE_OUTER_PCT == 20   \* RING_SCALE_OUTER = 0.20
RING_INNER_RATIO_PCT == 45   \* RING_INNER_RATIO = 0.45
MIN_GREEN_PCT     == 25      \* MIN_GREEN_RATIO = 0.25
MIN_GRAY_PCT      == 35      \* MIN_GRAY_RATIO  = 0.35
SEARCH_WINDOW_SEC == 60
LOITER_SECONDS    == 15
GUIDED_SETTLE_SEC == 8       \* time.sleep(8) after the goto
DO_GUIDED_OFFSET  == TRUE
INITIAL_SEQ       == -1      \* MavlinkClient.current_seq before any report
INITIAL_DEADLINE  == -1      \* FlightRecorder.deadline before any search

\* Python's None for an optional value: <<>> is None, <<v>> is the value v.
None == <<>>
Some(v) == <<v>>
Max(a, b) == IF a >= b THEN a ELSE b
Min(a, b) == IF a <= b THEN a ELSE b
Abs(a) == IF a >= 0 THEN a ELSE -a

\* Lengths and the argument of _odd_int are real numbers in the code; here
\* they are whole hundredths (PX is 1.0).
PX == 100

\* Python's round(x) of x = c / PX: to the nearest integer, a tie to the even
\* one.
round(c) ==
    LET q == c \div PX
        r == c % PX
    IN  IF 2 * r < PX THEN q
        ELSE IF 2 * r > PX THEN q + 1
        ELSE IF q % 2 = 0 THEN q ELSE q + 1

odd_int_alwaysUp(c, min_val, max_val) ==
    LET n == Max(min_val, Min(max_val, round(c)))
    IN  IF n % 2 = 1 THEN n ELSE n + 1

\* _odd_int(n, min_val, max_val) for n = c / PX
odd_int(c, min_val, max_val) ==
    LET n == Max(min_val, Min(max_val, round(c)))
    IN  IF n % 2 = 1 THEN n
        ELSE IF n + 1 <= max_val THEN n + 1 ELSE n - 1

\* ================================================================ VideoRecorder
\* A recorder is [writer, last_segment_time, cam] as in the class, plus three
\* observation fields: nOpen, the number of VideoWriter objects that are open
\* (opened and not released); peak, the largest nOpen seen during the last
\* call; trace, what the last call did to the writers, in order.
\* writer is "None", or the state of the object self.writer refers to:
\* "unopened" (isOpened() false from the start), "open", "released".

VideoRecorder_init(t) ==
    [writer |-> "None", last_segment_time |-> t, cam |-> FALSE,
     nOpen |-> 0, peak |-> 0, trace |-> <<>>]

\* A call from the controller starts a fresh trace.
Entered(r) == [r EXCEPT !.trace = <<>>, !.peak = r.nOpen]

\* self.writer = self._open_writer(path, codec): the new object is created
\* (and opened, if the codec works) first; binding it to self.writer drops the
\* last reference to the previous object, whose destructor releases it.
AssignWriter(r, codec, ok) ==
    LET opened == r.nOpen + (IF ok THEN 1 ELSE 0)
        kept   == opened - (IF r.writer = "open" THEN 1 ELSE 0)
    IN  [r EXCEPT !.writer = IF ok THEN "open" ELSE "unopened",
                  !.nOpen  = kept,
                  !.peak   = Max(r.peak, opened),
                  !.trace  = Append(r.trace, <<"open", codec, ok>>)]

start_recording_alwaysFallback(r, primOk, fbOk, t) ==
    LET r1 == AssignWriter(r, "mp4v", primOk)
        r2 == AssignWriter(r1, "MJPG", fbOk)
    IN  IF r2.writer = "open"
        THEN [rec |-> [r2 EXCEPT !.last_segment_time = t], ok |-> TRUE]
        ELSE [rec |-> r2, ok |-> FALSE]

\* start_recording: primary codec, then the fallback if the primary is not
\* open; last_segment_time is set only on success.  [rec, ok]
start_recording(r, primOk, fbOk, t) ==
    LET r1 == AssignWriter(r, "mp4v", primOk)
        r2 == IF r1.writer # "open" THEN AssignWriter(r1, "MJPG", fbOk) ELSE r1
    IN  IF r2.writer = "open"
        THEN [rec |-> [r2 EXCEPT !.last_segment_time = t], ok |-> TRUE]
        ELSE [rec |-> r2, ok |-> FALSE]

\* writer.release(); os.sync()
ReleaseAndSync(r) ==
    [r EXCEPT !.writer = "released",
              !.nOpen  = r.nOpen - (IF r.writer = "open" THEN 1 ELSE 0),
              !.trace  = r.trace \o <<<<"release">>, <<"sync">>>>]

cut_segment_timerOnSuccess(r, primOk, fbOk, t) ==
    LET r1 == IF r.writer # "None" THEN ReleaseAndSync(r) ELSE r
    IN  start_recording(r1, primOk, fbOk, t).rec

cut_segment_noRelease(r, primOk, fbOk, t) ==
    [start_recording(r, primOk, fbOk, t).rec EXCEPT !.last_segment_time = t]

\* cut_segment: release and sync the current writer (any writer object is
\* truthy), start the next segment, restart the age timer in any case.
cut_segment(r, primOk, fbOk, t) ==
    LET r1 == IF r.writer # "None" THEN ReleaseAndSync(r) ELSE r
    IN  [start_recording(r1, primOk, fbOk, t).rec EXCEPT !.last_segment_time = t]

stop_recording(r) ==
    IF r.writer # "None" THEN ReleaseAndSync(r) ELSE r

\* ================================================================ MavlinkClient
\* A client is [conn, is_connected, current_seq, mission_waypoints] as in the
\* class, plus heartbeat: connect received an initial heartbeat.
Cmds == {"NAV_WAYPOINT", "NAV_LAND"}

\* _mode_mapping: the mode table the connection reports when asked (it depends
\* on the vehicle type of the last heartbeat; empty when both lookups fail).
ModeTables == {{"LOITER", "GUIDED", "AUTO"}, {"LOITER"}, {}}

MavlinkClient_init ==
    [conn |-> FALSE, is_connected |-> FALSE, current_seq |-> INITIAL_SEQ,
     mission_waypoints |-> <<>>, heartbeat |-> FALSE]

\* connect: mavlink_connection may raise (openOk = FALSE); wait_heartbeat
\* returns the heartbeat, returns nothing after the timeout ("timeout"), or
\* raises ("error").  Its return value is not looked at: only an exception
\* reaches the except branch.
connect(m, openOk, hb) ==
    IF openOk /\ hb # "error"
    THEN [m EXCEPT !.conn = TRUE, !.is_connected = TRUE,
                   !.heartbeat = (hb = "heartbeat")]
    ELSE [m EXCEPT !.conn = FALSE, !.is_connected = FALSE]

\* Telemetry messages recv_match can hand to update_state; the vehicle
\* reports sequence numbers 0..MaxSeq.
NoMsg == [type |-> "none", seq |-> 0]
Heartbeat == [type |-> "HEARTBEAT", seq |-> 0]
MissionCurrent(s) == [type |-> "MISSION_CURRENT", seq |-> s]
Msgs == {NoMsg, Heartbeat} \cup {MissionCurrent(s) : s \in 0..MaxSeq}

update_state_anyMessage(m, msg) ==
    IF ~m.is_connected THEN m
    ELSE IF msg.type # "none" THEN [m EXCEPT !.current_seq = msg.seq]
    ELSE m

update_state(m, msg) ==
    IF ~m.is_connected THEN m
    ELSE IF msg.type = "MISSION_CURRENT" THEN [m EXCEPT !.current_seq = msg.seq]
    ELSE m

\* Missions the vehicle can hold: sequences of commands.  The two of the
\* flights modelled here: two waypoints and the landing; the same with a
\* landing item in front.
Missions == {<<"NAV_WAYPOINT", "NAV_WAYPOINT", "NAV_LAND">>,
             <<"NAV_LAND", "NAV_WAYPOINT", "NAV_LAND">>}

\* MAVWPLoader.add numbers the items as they arrive: item i gets seq i
\* (zero-based), whatever the vehicle sent.
Loaded(cmds, k) == [i \in 1..k |-> [seq |-> i - 1, command |-> cmds[i]]]

\* download_mission: listOk - REQUEST_LIST could be sent; countOk - a
\* MISSION_COUNT arrived within 3 s; cmds - the vehicle's mission; k - the
\* number of items that arrived before the first item timeout.
download_mission(m, listOk, countOk, cmds, k) ==
    IF ~m.is_connected THEN m
    ELSE IF ~listOk \/ ~countOk THEN [m EXCEPT !.mission_waypoints = <<>>]
    ELSE [m EXCEPT !.mission_waypoints = Loaded(cmds, Min(k, Len(cmds)))]

\* The for loop of download_mission: items 0, 1, ... are requested one after
\* the other until one does not arrive (break) or count items are there; k
\* items arrive before the first timeout.
item_requests_noBreak(count, k) == count

item_requests(count, k) == IF k < count THEN k + 1 ELSE count

\* What one download exchanged with the vehicle: the announced count (None
\* when REQUEST_LIST failed or no MISSION_COUNT came) and the requests sent.
download_exchange(listOk, countOk, cmds, k) ==
    IF ~listOk \/ ~countOk THEN [count |-> None, requests |-> 0]
    ELSE [count |-> Some(Len(cmds)), requests |-> item_requests(Len(cmds), k)]

\* autodetect_trigger_wp, after the download: the loop returns at the first
\* index i (zero-based i > 0) whose command is NAV_LAND, with the seq of the
\* waypoint before it.
autodetect_trigger_wp(wps) ==
    LET hits == {i \in 1..Len(wps) : wps[i].command = "NAV_LAND" /\ (i - 1) > 0}
    IN  IF wps = <<>> \/ hits = {} THEN None
        ELSE LET i == CHOOSE j \in hits : \A l \in hits : j <= l
             IN  Some(wps[i - 1].seq)

set_mode_unchecked(m, mapping, mode_name) ==
    IF ~m.is_connected THEN <<>>
    ELSE <<mode_name>>

\* The wire messages a command puts on the link (<<>>: nothing is sent).
set_mode(m, mapping, mode_name) ==
    IF ~m.is_connected THEN <<>>
    ELSE IF mode_name \notin mapping THEN <<>>
    ELSE <<mode_name>>

do_land_start(m) == IF ~m.is_connected THEN <<>> ELSE <<"DO_LAND_START">>

goto_global_pos(m, sendOk) ==
    IF ~m.is_connected THEN <<>>
    ELSE IF sendOk THEN <<"GOTO">> ELSE <<>>

\* get_current_pos_and_heading: "none" (disconnected or 1 s timeout),
\* "nohdg" (a position without heading), "ok" (position and heading).
PosFixes == {"none", "nohdg", "ok"}
get_current_pos_and_heading(m, answer) == IF ~m.is_connected THEN "none" ELSE answer

\* =============================================================== RunwayDetector
\* HSV thresholds are triples <<H, S, V>>.
DEFAULT_WHITE_LOW  == <<0, 0, 180>>
DEFAULT_WHITE_HIGH == <<179, 60, 255>>
DEFAULT_GREEN_LOW  == <<45, 60, 40>>
DEFAULT_GREEN_HIGH == <<85, 255, 255>>
ENABLE_CALIBRATION == TRUE
CAL_WHITE_V_MIN_CLAMP == <<180, 240>>
CAL_WHITE_S_MAX_CLAMP == <<20, 80>>
CAL_GREEN_H_WIDTH     == 20
CAL_GREEN_S_MIN_CLAMP == <<40, 120>>
CAL_GREEN_V_MIN_CLAMP == <<30, 120>>
CAL_MIN_SAMPLES       == 1000    \* `.size > 1000` in calibrate
H_MAX                 == 179     \* largest hue, `min(179, ...)` in calibrate

\* A detector is its four thresholds.
RunwayDetector_init ==
    [white_low |-> DEFAULT_WHITE_LOW, white_high |-> DEFAULT_WHITE_HIGH,
     green_low |-> DEFAULT_GREEN_LOW, green_high |-> DEFAULT_GREEN_HIGH]

Clamp(c, v) == Max(c[1], Min(c[2], v))

\* What the sampling loop of calibrate pooled: white_n, green_n - the number
\* of pixels pooled per category (white_S and white_V always have the same
\* size, and so have green_H, green_S, green_V); v80, s50 - the truncated
\* percentiles of the white samples; h_med, s40, v30 - those of the green ones.
NoSamples == [white_n |-> 0, green_n |-> 0, v80 |-> 0, s50 |-> 0,
              h_med |-> 0, s40 |-> 0, v30 |-> 0]

\* A sunlit grass field: enough samples of both categories.
SunnyField == [white_n |-> 30000, green_n |-> 30000, v80 |-> 250, s50 |-> 20,
               h_med |-> 60, s40 |-> 90, v30 |-> 100]

\* What the calibration pooled in the flights modelled by Spec (every other
\* outcome is covered by SpecCalibration).
SetupSamples == {SunnyField}

\* The pooled samples the detector is checked on alone: none, exactly 1000 and
\* more of either category. White samples are the bright, unsaturated pixels
\* of a frame, green ones have H in 35..85, S >= 60 and V >= 40.
Pooled ==
    {[white_n |-> w[1], green_n |-> g[1], v80 |-> w[2], s50 |-> w[3],
      h_med |-> g[2], s40 |-> g[3], v30 |-> g[4]] :
        w \in {<<0, 0, 0>>} \cup ({CAL_MIN_SAMPLES, CAL_MIN_SAMPLES + 1}
                                  \X {150, 250} \X {5, 90}),
        g \in {<<0, 0, 0, 0>>} \cup ({CAL_MIN_SAMPLES, CAL_MIN_SAMPLES + 1}
                                     \X {35, 85} \X {60, 130} \X {100}) }
    \cup {SunnyField}

calibrate_uncheckedSize(d, p) ==
    LET v_min   == Clamp(CAL_WHITE_V_MIN_CLAMP, p.v80 - 5)
        s_max   == Clamp(CAL_WHITE_S_MAX_CLAMP, p.s50 + 10)
        h_lo    == Max(0, p.h_med - CAL_GREEN_H_WIDTH)
        h_hi    == Min(H_MAX, p.h_med + CAL_GREEN_H_WIDTH)
        g_s_min == Clamp(CAL_GREEN_S_MIN_CLAMP, p.s40)
        g_v_min == Clamp(CAL_GREEN_V_MIN_CLAMP, p.v30)
    IN  [white_low  |-> <<0, 0, v_min>>,
         white_high |-> <<H_MAX, s_max, 255>>,
         green_low  |-> <<h_lo, g_s_min, g_v_min>>,
         green_high |-> <<Min(H_MAX, h_hi), 255, 255>>]

\* calibrate, after its sampling loop: every component is estimated from the
\* pooled samples of its category when there are more than 1000 of them, and
\* is the default otherwise; the four thresholds are then assigned.
calibrate(d, p) ==
    IF ~ENABLE_CALIBRATION THEN d
    ELSE
    LET v_min   == IF p.white_n > CAL_MIN_SAMPLES
                   THEN Clamp(CAL_WHITE_V_MIN_CLAMP, p.v80 - 5)
                   ELSE DEFAULT_WHITE_LOW[3]
        s_max   == IF p.white_n > CAL_MIN_SAMPLES
                   THEN Clamp(CAL_WHITE_S_MAX_CLAMP, p.s50 + 10)
                   ELSE DEFAULT_WHITE_HIGH[2]
        h_lo    == IF p.green_n > CAL_MIN_SAMPLES
                   THEN Max(0, p.h_med - CAL_GREEN_H_WIDTH)
                   ELSE DEFAULT_GREEN_LOW[1]
        h_hi    == IF p.green_n > CAL_MIN_SAMPLES
                   THEN Min(H_MAX, p.h_med + CAL_GREEN_H_WIDTH)
                   ELSE DEFAULT_GREEN_HIGH[1]
        g_s_min == IF p.green_n > CAL_MIN_SAMPLES
                   THEN Clamp(CAL_GREEN_S_MIN_CLAMP, p.s40)
                   ELSE DEFAULT_GREEN_LOW[2]
        g_v_min == IF p.green_n > CAL_MIN_SAMPLES
                   THEN Clamp(CAL_GREEN_V_MIN_CLAMP, p.v30)
                   ELSE DEFAULT_GREEN_LOW[3]
    IN  [white_low  |-> <<0, 0, v_min>>,
         white_high |-> <<H_MAX, s_max, 255>>,
         green_low  |-> <<h_lo, g_s_min, g_v_min>>,
         green_high |-> <<Min(H_MAX, h_hi), 255, 255>>]

\* What detect reads off a frame: whether the white mask has a contour, the
\* area of the largest one (pixels), the sides of its minimum-area rectangle
\* (hundredths of a pixel), the rectangle's angle (degrees), and the pixel
\* counts of the ring (rp), of green in the ring (gp) and of gray in it (gr).
NoContour == [cnts |-> FALSE, area |-> 0, width |-> 0, height |-> 0,
              angle |-> 0, rp |-> 0, gp |-> 0, gr |-> 0]
Strip     == [cnts |-> TRUE, area |-> 4000, width |-> 200 * PX, height |-> 20 * PX,
              angle |-> 5, rp |-> 1000, gp |-> 400, gr |-> 0]
Frames == {NoContour, Strip}

\* The frames the detector is checked on alone. The contour lies inside its
\* rectangle, and the green and the gray pixels of the ring inside the ring.
Sides  == {0, 90, PX, 6 * PX, 20 * PX, 200 * PX, 600 * PX}
Areas  == {MIN_WHITE_AREA - 1, MIN_WHITE_AREA, 4000}
Angles == {-30, 5, 90}
Rings  == {<<0, 0, 0>>, <<1000, 400, 0>>, <<1000, 100, 100>>, <<1000, 250, 0>>,
           <<1000, 249, 349>>, <<1000, 0, 350>>, <<1000, 300, 400>>}
DetectFrames ==
    {NoContour} \cup
    {f \in {[cnts |-> TRUE, area |-> a, width |-> w, height |-> h,
             angle |-> g, rp |-> r[1], gp |-> r[2], gr |-> r[3]] :
               a \in Areas, w \in Sides, h \in Sides, g \in Angles, r \in Rings} :
        f.area * PX <= (Max(f.width, f.height) \div PX) * Min(f.width, f.height)}

ring_sizes_plainRound(width, height, by_target) ==
    IF by_target
    THEN LET base     == Max(5 * PX, (Min(width, height) * RING_SCALE_OUTER_PCT) \div 100)
             outer_sz == Max(5, Min(151, round(base)))
         IN  <<outer_sz, Max(3, Min(outer_sz - 2, round(outer_sz * RING_INNER_RATIO_PCT)))>>
    ELSE LET outer_sz == Max(3, Min(255, round(RING_OUTER_PX * PX)))
         IN  <<outer_sz, Max(3, Min(outer_sz - 2, round(RING_INNER_PX * PX)))>>

\* The sizes <<outer_sz, inner_sz>> of the two kernels detect dilates the
\* contour with, by_target standing for SCALE_RING_BY_TARGET.
\* outer_sz * RING_INNER_RATIO is outer_sz * RING_INNER_RATIO_PCT hundredths.
ring_sizes(width, height, by_target) ==
    IF by_target
    THEN LET base     == Max(5 * PX, (Min(width, height) * RING_SCALE_OUTER_PCT) \div 100)
             outer_sz == odd_int(base, 5, 151)
         IN  <<outer_sz, odd_int(outer_sz * RING_INNER_RATIO_PCT, 3, outer_sz - 2)>>
    ELSE LET outer_sz == odd_int(RING_OUTER_PX * PX, 3, 255)
         IN  <<outer_sz, odd_int(RING_INNER_PX * PX, 3, outer_sz - 2)>>

\* The sides the kernel sizes are checked on: every 1.25 px up to 10 * MaxN
\* px, and the sides of DetectFrames and beyond the widest frame.
RingSides == {k * (PX + PX \div 4) : k \in 0..(8 * MaxN)} \cup Sides \cup {800 * PX}

\* The runway strip under every whole angle cv2.minAreaRect can report.
AngleFrames == {[Strip EXCEPT !.angle = g] : g \in -90..90}

detect_rawAngle(f) ==
    IF ~f.cnts THEN None
    ELSE IF f.area < MIN_WHITE_AREA THEN None
    ELSE IF Max(f.width, f.height) < ASPECT_MIN * Max(PX, Min(f.width, f.height))
         THEN None
    ELSE IF Abs(f.angle) > ANGLE_TOL_DEG THEN None
    ELSE IF f.rp <= 0 THEN None
    ELSE IF f.gp * 100 < MIN_GREEN_PCT * f.rp /\ f.gr * 100 < MIN_GRAY_PCT * f.rp
         THEN None
    ELSE Some([width |-> f.width, height |-> f.height, angle |-> f.angle])

detect_bothRatios(f) ==
    IF ~f.cnts THEN None
    ELSE IF f.area < MIN_WHITE_AREA THEN None
    ELSE IF Max(f.width, f.height) < ASPECT_MIN * Max(PX, Min(f.width, f.height))
         THEN None
    ELSE IF Min(Abs(f.angle), Abs(Abs(f.angle) - 90)) > ANGLE_TOL_DEG THEN None
    ELSE IF f.rp <= 0 THEN None
    ELSE IF f.gp * 100 < MIN_GREEN_PCT * f.rp \/ f.gr * 100 < MIN_GRAY_PCT * f.rp
         THEN None
    ELSE Some([width |-> f.width, height |-> f.height, angle |-> f.angle])

detect_aspectOfLongSide(f) ==
    IF ~f.cnts THEN None
    ELSE IF f.area < MIN_WHITE_AREA THEN None
    ELSE IF Max(f.width, f.height) < ASPECT_MIN * PX THEN None
    ELSE IF Min(Abs(f.angle), Abs(Abs(f.angle) - 90)) > ANGLE_TOL_DEG THEN None
    ELSE IF f.rp <= 0 THEN None
    ELSE IF f.gp * 100 < MIN_GREEN_PCT * f.rp /\ f.gr * 100 < MIN_GRAY_PCT * f.rp
         THEN None
    ELSE Some([width |-> f.width, height |-> f.height, angle |-> f.angle])

\* RunwayDetector.detect: None, or the rectangle of the largest white contour.
\* aspect = max(width, height) / max(1.0, min(width, height)) < ASPECT_MIN and
\* gp / rp < MIN_GREEN_RATIO, gr / rp < MIN_GRAY_RATIO are compared after
\* multiplying by the (positive) divisor.
detect(f) ==
    IF ~f.cnts THEN None
    ELSE IF f.area < MIN_WHITE_AREA THEN None
    ELSE IF Max(f.width, f.height) < ASPECT_MIN * Max(PX, Min(f.width, f.height))
         THEN None
    ELSE IF Min(Abs(f.angle), Abs(Abs(f.angle) - 90)) > ANGLE_TOL_DEG THEN None
    ELSE IF f.rp <= 0 THEN None
    ELSE IF f.gp * 100 < MIN_GREEN_PCT * f.rp /\ f.gr * 100 < MIN_GRAY_PCT * f.rp
         THEN None
    ELSE Some([width |-> f.width, height |-> f.height, angle |-> f.angle])

\* ================================================================ Zeiterfassung
\* The time tracker's database: the rows of tasks and of time_entries in the
\* order of their AUTOINCREMENT ids (no function here deletes a row, so the
\* id of a row is its position). A column that is NULL is "NULL", a time
\* stamp written by now_str() is "set".
init_db == [tasks |-> <<>>, time_entries |-> <<>>]

\* str.strip() of a name given as a sequence of characters
RECURSIVE lstrip(_)
lstrip(name) ==
    IF name # <<>> /\ Head(name) = " " THEN lstrip(Tail(name)) ELSE name
RECURSIVE rstrip(_)
rstrip(name) ==
    IF name # <<>> /\ name[Len(name)] = " "
    THEN rstrip(SubSeq(name, 1, Len(name) - 1)) ELSE name
strip(name) == rstrip(lstrip(name))

\* create_task: an empty name raises, a name already in the table violates
\* UNIQUE; the value is the database after the call and what was raised
create_task(db, name, planned_hours, planned_minutes) ==
    IF strip(name) = <<>> THEN [con |-> db, raised |-> Some("ValueError")]
    ELSE IF \E i \in 1..Len(db.tasks) : db.tasks[i].name = strip(name)
    THEN [con |-> db, raised |-> Some("IntegrityError")]
    ELSE [con |-> [db EXCEPT !.tasks = Append(@,
                     [name |-> strip(name),
                      planned_minutes |-> Max(0, planned_hours * 60 + planned_minutes)])],
          raised |-> None]

\* the ids of the rows get_active_entry selects from (it takes one of them)
active_entries(db) ==
    {i \in 1..Len(db.time_entries) :
        db.time_entries[i].end_time = "NULL" /\ db.time_entries[i].manual_minutes = 0}

\* start_task, active being what get_active_entry returned (None or a row id)
start_task(db, task_id, active) ==
    IF active # None
    THEN IF db.time_entries[active[1]].task_id # task_id
         THEN [con |-> db, raised |-> Some("RuntimeError")]
         ELSE [con |-> db, raised |-> None]
    ELSE [con |-> [db EXCEPT !.time_entries = Append(@,
                     [task_id |-> task_id, start_time |-> "set",
                      end_time |-> "NULL", manual_minutes |-> 0])],
          raised |-> None]

\* stop_task: ends the newest running row of the task
stop_task(db, task_id) ==
    LET rows == {i \in active_entries(db) : db.time_entries[i].task_id = task_id}
    IN  IF rows = {} THEN [con |-> db, raised |-> Some("RuntimeError")]
        ELSE LET row == CHOOSE i \in rows : \A j \in rows : j <= i
             IN  [con |-> [db EXCEPT !.time_entries[row].end_time = "set"],
                  raised |-> None]

add_manual_time_acceptsZero(db, task_id, hours, minutes) ==
    LET total_minutes == Max(0, hours * 60 + minutes)
    IN  [con |-> [db EXCEPT !.time_entries = Append(@,
                     [task_id |-> task_id, start_time |-> "NULL",
                      end_time |-> "NULL", manual_minutes |-> total_minutes])],
          raised |-> None]

add_manual_time(db, task_id, hours, minutes) ==
    LET total_minutes == Max(0, hours * 60 + minutes)
    IN  IF total_minutes <= 0 THEN [con |-> db, raised |-> Some("ValueError")]
        ELSE [con |-> [db EXCEPT !.time_entries = Append(@,
                         [task_id |-> task_id, start_time |-> "NULL",
                          end_time |-> "NULL", manual_minutes |-> total_minutes])],
              raised |-> None]

\* =============================================================== FlightRecorder
VARIABLES
    recorder,     \* self.recorder
    mavlink,      \* self.mavlink
    searching,    \* self.searching
    trigger_wp,   \* self.trigger_wp (None or Some(seq))
    deadline,     \* self.deadline
    pc,           \* the statement of run() that is executed next
    now,          \* time.time()
    frame,        \* the frame of the current loop iteration (None or Some(f))
    log,          \* the calls of the current loop iteration, in order (emptied
                  \* when the iteration is over and the loop goes round)
    sent,         \* the messages put on the link in the current iteration
    exit,         \* how run() left its try block
    timedOut,     \* the previous iteration with a frame ended a search by timeout
    rearms,       \* searches armed right after a timeout (counted to MaxRearm)
    setup_log,    \* the calls setup() made, in order
    dl,           \* what the mission download did: None, or Some of the count
                  \* the vehicle announced (None without one) and the item
                  \* requests sent
    segment_start,\* the time of the last start_recording that opened a writer
                  \* or of the last cut_segment call, whichever is later
    status,       \* the exit status of the process (None while it runs)
    detector,     \* self.detector: the four HSV thresholds
    landings,     \* landing sequences carried through (counted to MaxLandings)
    con,          \* the time tracker's database (Zeiterfassung.py)
    ncuts,        \* automatic cuts so far (counted in SpecRotation only)
    ret,          \* the value the last call of the unit under test returned
    local         \* the arguments and local variables of that call
                  \* (ret and local: the specifications of single units only)

vars == <<recorder, mavlink, searching, trigger_wp, deadline, pc, now, frame,
          log, sent, exit, timedOut, rearms, setup_log, dl, segment_start,
          status, detector, landings, con, ncuts, ret, local>>

ctl   == <<searching, trigger_wp, deadline>>
hist  == <<timedOut, rearms>>
obs   == <<setup_log, dl, segment_start, status>>
unit  == <<ncuts, ret, local>>

\* What capture_array hands to get_frame: a frame, or nothing yet (the loop
\* tests `frame is None`).
Captures == {None} \cup {Some(f) : f \in Frames}

\* Time that can pass while the loop waits for the next frame.
DtSet == {0, SEGMENT_SECONDS, SEARCH_WINDOW_SEC + 1}

Init ==
    /\ recorder = VideoRecorder_init(0)
    /\ mavlink = MavlinkClient_init
    /\ searching = FALSE
    /\ trigger_wp = None
    /\ deadline = INITIAL_DEADLINE
    /\ pc = "start_camera"
    /\ now = 0
    /\ frame = None
    /\ log = <<>>
    /\ sent = <<>>
    /\ exit = "running"
    /\ timedOut = FALSE
    /\ rearms = 0
    /\ setup_log = <<>>
    /\ dl = None
    /\ segment_start = 0
    /\ status = None
    /\ detector = RunwayDetector_init
    /\ landings = 0
    /\ con = init_db
    /\ ncuts = 0
    /\ ret = None
    /\ local = None

\* __main__: app.run() is the last statement of the script, so once run() has
\* returned, whichever way it left its try block, the interpreter ends with
\* status 0.
EXIT_SUCCESS == 0
main(how) == Some(EXIT_SUCCESS)

\* finally: self.recorder.stop_recording(), the last thing run() does on every
\* way out of its try block.
Teardown_skipped(r) == Entered(r)

Teardown(r) == stop_recording(Entered(r))

\* ------------------------------------------------------------------- setup()
StartCamera ==
    /\ pc = "start_camera"
    /\ \E ok \in BOOLEAN :
         IF ok
         THEN /\ recorder' = [recorder EXCEPT !.cam = TRUE]
              /\ pc' = "start_recording"
              /\ exit' = exit
              /\ status' = status
         ELSE /\ recorder' = Teardown(recorder)
              /\ pc' = "done"
              /\ exit' = "fatal"
              /\ status' = main("fatal")
    /\ setup_log' = Append(setup_log, "start_camera")
    /\ UNCHANGED <<mavlink, ctl, now, frame, log, sent, hist, dl, segment_start,
                   unit, detector, landings, con>>

StartRecording_returnIgnored ==
    /\ pc = "start_recording"
    /\ \E primOk \in BOOLEAN, fbOk \in BOOLEAN :
         LET s == start_recording(Entered(recorder), primOk, fbOk, now)
         IN  /\ recorder' = s.rec
             /\ pc' = "connect"
             /\ exit' = exit
             /\ status' = status
             /\ segment_start' = IF s.ok THEN now ELSE segment_start
    /\ setup_log' = Append(setup_log, "start_recording")
    /\ UNCHANGED <<mavlink, ctl, now, frame, log, sent, hist, dl, unit, detector, landings, con>>

StartRecording ==
    /\ pc = "start_recording"
    /\ \E primOk \in BOOLEAN, fbOk \in BOOLEAN :
         LET s == start_recording(Entered(recorder), primOk, fbOk, now)
         IN  /\ recorder' = IF s.ok THEN s.rec ELSE Teardown(s.rec)
             /\ pc' = IF s.ok THEN "connect" ELSE "done"
             /\ exit' = IF s.ok THEN exit ELSE "fatal"
             /\ status' = IF s.ok THEN status ELSE main("fatal")
             /\ segment_start' = IF s.ok THEN now ELSE segment_start
    /\ setup_log' = Append(setup_log, "start_recording")
    /\ UNCHANGED <<mavlink, ctl, now, frame, log, sent, hist, dl, unit, detector, landings, con>>

Connect_calibratesWhenConnected ==
    /\ pc = "connect"
    /\ \E openOk \in BOOLEAN, hb \in {"heartbeat", "timeout", "error"} :
         mavlink' = connect(mavlink, openOk, hb)
    /\ pc' = IF mavlink'.is_connected THEN "autodetect" ELSE "get_frame"
    /\ setup_log' = Append(setup_log, "connect")
    /\ UNCHANGED <<recorder, ctl, now, frame, log, sent, exit, hist, dl,
                   segment_start, status, unit, detector, landings, con>>

\* self.mavlink.connect(); autodetect_trigger_wp follows only when connected,
\* calibrate in either case
Connect ==
    /\ pc = "connect"
    /\ \E openOk \in BOOLEAN, hb \in {"heartbeat", "timeout", "error"} :
         mavlink' = connect(mavlink, openOk, hb)
    /\ pc' = IF mavlink'.is_connected THEN "autodetect" ELSE "calibrate"
    /\ setup_log' = Append(setup_log, "connect")
    /\ UNCHANGED <<recorder, ctl, now, frame, log, sent, exit, hist, dl,
                   segment_start, status, unit, detector, landings, con>>

AutodetectTrigger ==
    /\ pc = "autodetect"
    /\ \E listOk \in BOOLEAN, countOk \in BOOLEAN, cmds \in Missions :
         \E k \in 0..Len(cmds) :
           /\ mavlink' = download_mission(mavlink, listOk, countOk, cmds, k)
           /\ dl' = Some(download_exchange(listOk, countOk, cmds, k))
    /\ trigger_wp' = autodetect_trigger_wp(mavlink'.mission_waypoints)
    /\ setup_log' = setup_log \o <<"autodetect_trigger_wp", "download_mission">>
    /\ pc' = "calibrate"
    /\ UNCHANGED <<recorder, searching, deadline, now, frame, log, sent, exit,
                   hist, segment_start, status, unit, detector, landings, con>>

\* self.detector.calibrate(self.recorder.get_frame): what the sampling loop
\* pooled from the camera's frames decides the thresholds.
Calibrate ==
    /\ pc = "calibrate"
    /\ \E p \in SetupSamples : detector' = calibrate(detector, p)
    /\ pc' = "get_frame"
    /\ setup_log' = Append(setup_log, "calibrate")
    /\ UNCHANGED <<recorder, mavlink, ctl, now, frame, log, sent, exit, hist,
                   dl, segment_start, status, unit, landings, con>>

\* --------------------------------------------------------------- run(): loop
\* get_frame: capture_array of the started camera, None without a camera
\* (then the loop sleeps and tries again).
GetFrame_pollsWithoutFrame ==
    /\ pc = "get_frame"
    /\ \E dt \in DtSet, c \in Captures :
         /\ now + dt <= MaxTime
         /\ now' = now + dt
         /\ frame' = IF recorder.cam THEN c ELSE None
    /\ pc' = IF frame' # None THEN "write" ELSE "get_frame"
    /\ \E msg \in Msgs :
         mavlink' = IF frame' = None THEN update_state(mavlink, msg) ELSE mavlink
    /\ UNCHANGED <<recorder, ctl, log, sent, exit, hist, obs, unit, detector, landings, con>>

GetFrame ==
    /\ pc = "get_frame"
    /\ \E dt \in DtSet, c \in Captures :
         /\ now + dt <= MaxTime
         /\ now' = now + dt
         /\ frame' = IF recorder.cam THEN c ELSE None
    /\ pc' = IF frame' # None THEN "write" ELSE "get_frame"
    /\ UNCHANGED <<recorder, mavlink, ctl, log, sent, exit, hist, obs, unit, detector, landings, con>>

WriteFrame ==
    /\ pc = "write"
    /\ log' = Append(log, "write")
    /\ pc' = "update_state"
    /\ UNCHANGED <<recorder, mavlink, ctl, now, frame, sent, exit, hist, obs,
                   unit, detector, landings, con>>

UpdateState ==
    /\ pc = "update_state"
    /\ \E msg \in Msgs : mavlink' = update_state(mavlink, msg)
    /\ log' = Append(log, "update_state")
    /\ pc' = "rotate"
    /\ UNCHANGED <<recorder, ctl, now, frame, sent, exit, hist, obs, unit, detector, landings, con>>

\* if time.time() - last_segment_time > SEGMENT_SECONDS: cut_segment("flight")
rotate_due_reversed(r, t) == r.last_segment_time - t > SEGMENT_SECONDS

rotate_due_atLeast(r, t) == t - r.last_segment_time >= SEGMENT_SECONDS

rotate_due(r, t) == t - r.last_segment_time > SEGMENT_SECONDS

Rotate_raisesOnFailure ==
    /\ pc = "rotate"
    /\ \/ /\ rotate_due(recorder, now)
          /\ \E primOk \in BOOLEAN, fbOk \in BOOLEAN :
               LET r == cut_segment(Entered(recorder), primOk, fbOk, now)
               IN  IF r.writer = "open"
                   THEN recorder' = r /\ pc' = "arm" /\ exit' = exit /\ status' = status
                   ELSE /\ recorder' = Teardown(r)
                        /\ pc' = "done"
                        /\ exit' = "error"
                        /\ status' = main("error")
          /\ log' = Append(log, "cut")
          /\ segment_start' = now
       \/ /\ ~rotate_due(recorder, now)
          /\ pc' = "arm"
          /\ UNCHANGED <<recorder, log, segment_start, exit, status>>
    /\ UNCHANGED <<mavlink, ctl, now, frame, sent, hist, setup_log, dl, unit, detector, landings, con>>

Rotate ==
    /\ pc = "rotate"
    /\ \/ /\ rotate_due(recorder, now)
          /\ \E primOk \in BOOLEAN, fbOk \in BOOLEAN :
               recorder' = cut_segment(Entered(recorder), primOk, fbOk, now)
          /\ log' = Append(log, "cut")
          /\ segment_start' = now
       \/ /\ ~rotate_due(recorder, now)
          /\ UNCHANGED <<recorder, log, segment_start>>
    /\ pc' = "arm"
    /\ UNCHANGED <<mavlink, ctl, now, frame, sent, exit, hist, setup_log, dl,
                   status, unit, detector, landings, con>>

arm_cond_reachedOrPassed(m, trig, srch) ==
    m.is_connected /\ trig # None /\ m.current_seq >= trig[1] /\ ~srch

arm_cond_whileSearching(m, trig, srch) ==
    m.is_connected /\ trig # None /\ m.current_seq = trig[1]

arm_cond_anySeq(m, trig, srch) ==
    m.is_connected /\ trig # None /\ ~srch

arm_cond_onlyOnce(m, trig, srch) ==
    /\ m.is_connected /\ trig # None /\ m.current_seq = trig[1] /\ ~srch
    /\ deadline = INITIAL_DEADLINE

\* the condition that arms the search
arm_cond(m, trig, srch) ==
    m.is_connected /\ trig # None /\ m.current_seq = trig[1] /\ ~srch

search_deadline_short(t) == t

search_deadline(t) == t + SEARCH_WINDOW_SEC

Arm_detectAlways ==
    /\ pc = "arm"
    /\ IF arm_cond(mavlink, trigger_wp, searching)
       THEN /\ searching' = TRUE
            /\ deadline' = search_deadline(now)
            /\ log' = Append(log, "arm")
            /\ rearms' = IF timedOut /\ rearms < MaxRearm THEN rearms + 1 ELSE rearms
       ELSE UNCHANGED <<searching, deadline, log, rearms>>
    /\ timedOut' = FALSE
    /\ pc' = "detect"
    /\ UNCHANGED <<recorder, mavlink, trigger_wp, now, frame, sent, exit, obs,
                   unit, detector, landings, con>>

Arm ==
    /\ pc = "arm"
    /\ IF arm_cond(mavlink, trigger_wp, searching)
       THEN /\ searching' = TRUE
            /\ deadline' = search_deadline(now)
            /\ log' = Append(log, "arm")
            /\ rearms' = IF timedOut /\ rearms < MaxRearm THEN rearms + 1 ELSE rearms
       ELSE UNCHANGED <<searching, deadline, log, rearms>>
    /\ timedOut' = FALSE
    /\ pc' = IF searching' THEN "detect" ELSE "complete"
    /\ UNCHANGED <<recorder, mavlink, trigger_wp, now, frame, sent, exit, obs,
                   unit, detector, landings, con>>

Detect_resetsThresholds ==
    /\ pc = "detect"
    /\ IF detect(frame[1]) # None
       THEN /\ searching' = FALSE
            /\ pc' = "land_cut"
            /\ log' = Append(log, "detect")
            /\ timedOut' = timedOut
       ELSE IF now > deadline
       THEN /\ searching' = FALSE
            /\ pc' = "complete"
            /\ log' = log \o <<"detect", "search_timeout">>
            /\ timedOut' = TRUE
       ELSE /\ searching' = searching
            /\ pc' = "complete"
            /\ log' = Append(log, "detect")
            /\ timedOut' = timedOut
    /\ detector' = RunwayDetector_init
    /\ UNCHANGED <<recorder, mavlink, trigger_wp, deadline, now, frame, sent,
                   exit, rearms, obs, unit, landings, con>>

Detect_timeoutKeepsFlag ==
    /\ pc = "detect"
    /\ IF detect(frame[1]) # None
       THEN /\ searching' = FALSE
            /\ pc' = "land_cut"
            /\ log' = Append(log, "detect")
            /\ timedOut' = timedOut
       ELSE IF now > deadline
       THEN /\ searching' = searching
            /\ pc' = "complete"
            /\ log' = log \o <<"detect", "search_timeout">>
            /\ timedOut' = TRUE
       ELSE /\ searching' = searching
            /\ pc' = "complete"
            /\ log' = Append(log, "detect")
            /\ timedOut' = timedOut
    /\ UNCHANGED <<recorder, mavlink, trigger_wp, deadline, now, frame, sent,
                   exit, rearms, obs, unit, detector, landings, con>>

\* res = detect(frame); a detection clears the flag and starts the landing
\* sequence, otherwise the deadline is looked at ("Suche timeout").
Detect ==
    /\ pc = "detect"
    /\ IF detect(frame[1]) # None
       THEN /\ searching' = FALSE
            /\ pc' = "land_cut"
            /\ log' = Append(log, "detect")
            /\ timedOut' = timedOut
       ELSE IF now > deadline
       THEN /\ searching' = FALSE
            /\ pc' = "complete"
            /\ log' = log \o <<"detect", "search_timeout">>
            /\ timedOut' = TRUE
       ELSE /\ searching' = searching
            /\ pc' = "complete"
            /\ log' = Append(log, "detect")
            /\ timedOut' = timedOut
    /\ UNCHANGED <<recorder, mavlink, trigger_wp, deadline, now, frame, sent,
                   exit, rearms, obs, unit, detector, landings, con>>

LandCut ==
    /\ pc = "land_cut"
    /\ IF ROTATE_ON_EVENTS
       THEN /\ \E primOk \in BOOLEAN, fbOk \in BOOLEAN :
                 recorder' = cut_segment(Entered(recorder), primOk, fbOk, now)
            /\ log' = Append(log, "cut:land_start")
            /\ segment_start' = now
       ELSE UNCHANGED <<recorder, log, segment_start>>
    /\ pc' = "loiter"
    /\ UNCHANGED <<mavlink, ctl, now, frame, sent, exit, hist, setup_log, dl,
                   status, unit, detector, landings, con>>

Loiter_noSettle ==
    /\ pc = "loiter"
    /\ \E mapping \in ModeTables : sent' = sent \o set_mode(mavlink, mapping, "LOITER")
    /\ log' = Append(log, "set_mode:LOITER")
    /\ pc' = IF DO_GUIDED_OFFSET THEN "get_pos" ELSE "auto"
    /\ UNCHANGED <<recorder, mavlink, ctl, now, frame, exit, hist, obs, unit, detector, landings, con>>

Loiter ==
    /\ pc = "loiter"
    /\ \E mapping \in ModeTables : sent' = sent \o set_mode(mavlink, mapping, "LOITER")
    /\ log' = Append(log, "set_mode:LOITER")
    /\ pc' = "settle_loiter"
    /\ UNCHANGED <<recorder, mavlink, ctl, now, frame, exit, hist, obs, unit, detector, landings, con>>

SettleLoiter ==
    /\ pc = "settle_loiter"
    /\ now + LOITER_SECONDS <= MaxTime
    /\ now' = now + LOITER_SECONDS
    /\ log' = Append(log, "sleep:loiter")
    /\ pc' = IF DO_GUIDED_OFFSET THEN "get_pos" ELSE "auto"
    /\ UNCHANGED <<recorder, mavlink, ctl, frame, sent, exit, hist, obs, unit, detector, landings, con>>

GetPos_offsetWithoutHeading ==
    /\ pc = "get_pos"
    /\ \E answer \in PosFixes :
         LET got == get_current_pos_and_heading(mavlink, answer)
         IN  /\ log' = Append(log, IF got = "ok" THEN "get_pos:ok"
                                   ELSE IF got = "nohdg" THEN "get_pos:nohdg"
                                   ELSE "get_pos:none")
             /\ pc' = IF got # "none" THEN "guided" ELSE "auto"
    /\ UNCHANGED <<recorder, mavlink, ctl, now, frame, sent, exit, hist, obs,
                   unit, detector, landings, con>>

\* pos, hdg = get_current_pos_and_heading(); if pos and hdg is not None: ...
GetPos ==
    /\ pc = "get_pos"
    /\ \E answer \in PosFixes :
         LET got == get_current_pos_and_heading(mavlink, answer)
         IN  /\ log' = Append(log, IF got = "ok" THEN "get_pos:ok"
                                   ELSE IF got = "nohdg" THEN "get_pos:nohdg"
                                   ELSE "get_pos:none")
             /\ pc' = IF got = "ok" THEN "guided" ELSE "auto"
    /\ UNCHANGED <<recorder, mavlink, ctl, now, frame, sent, exit, hist, obs,
                   unit, detector, landings, con>>

Guided ==
    /\ pc = "guided"
    /\ \E mapping \in ModeTables : sent' = sent \o set_mode(mavlink, mapping, "GUIDED")
    /\ log' = Append(log, "set_mode:GUIDED")
    /\ pc' = "goto"
    /\ UNCHANGED <<recorder, mavlink, ctl, now, frame, exit, hist, obs, unit, detector, landings, con>>

Goto ==
    /\ pc = "goto"
    /\ \E sendOk \in BOOLEAN : sent' = sent \o goto_global_pos(mavlink, sendOk)
    /\ log' = Append(log, "goto")
    /\ pc' = "settle_guided"
    /\ UNCHANGED <<recorder, mavlink, ctl, now, frame, exit, hist, obs, unit, detector, landings, con>>

SettleGuided ==
    /\ pc = "settle_guided"
    /\ now + GUIDED_SETTLE_SEC <= MaxTime
    /\ now' = now + GUIDED_SETTLE_SEC
    /\ log' = Append(log, "sleep:guided")
    /\ pc' = "auto"
    /\ UNCHANGED <<recorder, mavlink, ctl, frame, sent, exit, hist, obs, unit, detector, landings, con>>

Auto ==
    /\ pc = "auto"
    /\ \E mapping \in ModeTables : sent' = sent \o set_mode(mavlink, mapping, "AUTO")
    /\ log' = Append(log, "set_mode:AUTO")
    /\ pc' = "land_start"
    /\ UNCHANGED <<recorder, mavlink, ctl, now, frame, exit, hist, obs, unit, detector, landings, con>>

LandStart ==
    /\ pc = "land_start"
    /\ sent' = sent \o do_land_start(mavlink)
    /\ log' = Append(log, "do_land_start")
    /\ landings' = IF landings < MaxLandings THEN landings + 1 ELSE landings
    /\ pc' = "complete"
    /\ UNCHANGED <<recorder, mavlink, ctl, now, frame, exit, hist, obs, unit,
                   detector, con>>

mission_done_lenMinusTwo(m, srch) ==
    /\ m.is_connected
    /\ m.mission_waypoints # <<>>
    /\ m.current_seq >= Len(m.mission_waypoints) - 2
    /\ ~srch

mission_done_whileSearching(m, srch) ==
    /\ m.is_connected
    /\ m.mission_waypoints # <<>>
    /\ m.current_seq >= Len(m.mission_waypoints) - 1

\* the mission-completion condition at the end of an iteration
mission_done(m, srch) ==
    /\ m.is_connected
    /\ m.mission_waypoints # <<>>
    /\ m.current_seq >= Len(m.mission_waypoints) - 1
    /\ ~srch

Complete ==
    /\ pc = "complete"
    /\ IF mission_done(mavlink, searching)
       THEN /\ IF ROTATE_ON_EVENTS
               THEN /\ \E primOk \in BOOLEAN, fbOk \in BOOLEAN :
                         recorder' = Teardown(cut_segment(Entered(recorder), primOk, fbOk, now))
                    /\ log' = Append(log, "cut:landed")
                    /\ segment_start' = now
               ELSE /\ recorder' = Teardown(recorder)
                    /\ log' = log
                    /\ segment_start' = segment_start
            /\ exit' = "complete"
            /\ status' = main("complete")
            /\ pc' = "done"
            /\ UNCHANGED <<frame, sent>>
       ELSE /\ pc' = "get_frame"
            /\ frame' = None
            /\ log' = <<>>
            /\ sent' = <<>>
            /\ UNCHANGED <<recorder, exit, segment_start, status>>
    /\ UNCHANGED <<mavlink, ctl, now, hist, setup_log, dl, unit, detector, landings, con>>

\* ------------------------------------------------------- leaving the try block
InTry == pc # "done"

\* KeyboardInterrupt at any statement of setup() or of the loop: the except
\* clause prints, the finally clause stops the recording, run() returns.
Interrupt ==
    /\ InTry
    /\ recorder' = Teardown(recorder)
    /\ pc' = "done"
    /\ exit' = "interrupt"
    /\ status' = main("interrupt")
    /\ UNCHANGED <<mavlink, ctl, now, frame, log, sent, hist, setup_log, dl,
                   segment_start, unit, detector, landings, con>>

\* any other exception at any statement of setup() or of the loop
Error ==
    /\ InTry
    /\ recorder' = Teardown(recorder)
    /\ pc' = "done"
    /\ exit' = "error"
    /\ status' = main("error")
    /\ UNCHANGED <<mavlink, ctl, now, frame, log, sent, hist, setup_log, dl,
                   segment_start, unit, detector, landings, con>>

Next ==
    \/ StartCamera \/ StartRecording \/ Connect \/ AutodetectTrigger \/ Calibrate
    \/ GetFrame \/ WriteFrame \/ UpdateState \/ Rotate \/ Arm \/ Detect
    \/ LandCut \/ Loiter \/ SettleLoiter \/ GetPos \/ Guided \/ Goto
    \/ SettleGuided \/ Auto \/ LandStart \/ Complete
    \/ Interrupt \/ Error

Spec == Init /\ [][Next]_vars

\* ------------------------------------------------------------- SpecRotation
\* The loop of a run without a link, one iteration per step and with a finer
\* clock: the state after setup() when connect failed, then iterations that
\* get a frame, write it, find nothing to poll, rotate the segment when it is
\* due, arm nothing and do not complete (both tests need the link).
InitRotation ==
    /\ \E primOk \in BOOLEAN, fbOk \in BOOLEAN :
         LET s == start_recording(
                    Entered([VideoRecorder_init(0) EXCEPT !.cam = TRUE]),
                    primOk, fbOk, 0)
         IN  s.ok /\ recorder = s.rec
    /\ mavlink = connect(MavlinkClient_init, FALSE, "error")
    /\ searching = FALSE
    /\ trigger_wp = None
    /\ deadline = INITIAL_DEADLINE
    /\ pc = "get_frame"
    /\ now = 0
    /\ frame = None
    /\ log = <<>>
    /\ sent = <<>>
    /\ exit = "running"
    /\ timedOut = FALSE
    /\ rearms = 0
    /\ setup_log = <<"start_camera", "start_recording", "connect", "calibrate">>
    /\ dl = None
    /\ segment_start = 0
    /\ status = None
    /\ detector = RunwayDetector_init
    /\ landings = 0
    /\ con = init_db
    /\ ncuts = 0
    /\ ret = None
    /\ local = None

RotationTick ==
    /\ pc = "get_frame"
    /\ recorder.cam
    /\ \E dt \in 1..MaxDt :
         /\ now + dt <= MaxTime
         /\ now' = now + dt
    /\ mavlink' = update_state(mavlink, NoMsg)
    /\ IF rotate_due(recorder, now')
       THEN /\ \E primOk \in BOOLEAN, fbOk \in BOOLEAN :
                 recorder' = cut_segment(Entered(recorder), primOk, fbOk, now')
            /\ segment_start' = now'
            /\ ncuts' = ncuts + 1
       ELSE UNCHANGED <<recorder, segment_start, ncuts>>
    /\ ~arm_cond(mavlink', trigger_wp, searching)
    /\ ~searching
    /\ ~mission_done(mavlink', searching)
    /\ UNCHANGED <<ctl, pc, frame, log, sent, exit, hist, setup_log, dl, status,
                   detector, landings, con, ret, local>>

SpecRotation == InitRotation /\ [][RotationTick]_vars

\* ------------------------------------------------------------- SpecRecorder
\* The VideoRecorder alone, called the way the controller calls it: after
\* start_camera one start_recording, then, if it opened a writer, cut_segment
\* any number of times, and stop_recording last.  Each call keeps its trace
\* and the value it returned.
InitRecorder ==
    /\ recorder = [VideoRecorder_init(0) EXCEPT !.cam = TRUE]
    /\ mavlink = MavlinkClient_init
    /\ searching = FALSE
    /\ trigger_wp = None
    /\ deadline = INITIAL_DEADLINE
    /\ pc = "start_recording"
    /\ now = 0
    /\ frame = None
    /\ log = <<>>
    /\ sent = <<>>
    /\ exit = "running"
    /\ timedOut = FALSE
    /\ rearms = 0
    /\ setup_log = <<"start_camera">>
    /\ dl = None
    /\ segment_start = 0
    /\ status = None
    /\ detector = RunwayDetector_init
    /\ landings = 0
    /\ con = init_db
    /\ ncuts = 0
    /\ ret = None
    /\ local = None

rest == <<mavlink, ctl, frame, log, sent, exit, hist, setup_log, dl,
          segment_start, status, detector, landings, con, ncuts, local>>

CallStartRecording ==
    /\ pc = "start_recording"
    /\ \E primOk \in BOOLEAN, fbOk \in BOOLEAN, dt \in 0..MaxDt :
         LET s == start_recording(Entered(recorder), primOk, fbOk, now + dt)
         IN  /\ now' = now + dt
             /\ recorder' = s.rec
             /\ ret' = Some(s.ok)
             /\ pc' = IF s.ok THEN "get_frame" ELSE "stop_recording"
    /\ UNCHANGED rest

CallCutSegment ==
    /\ pc = "get_frame"
    /\ \E primOk \in BOOLEAN, fbOk \in BOOLEAN, dt \in 1..MaxDt :
         /\ now + dt <= MaxTime
         /\ now' = now + dt
         /\ recorder' = cut_segment(Entered(recorder), primOk, fbOk, now + dt)
    /\ ret' = None
    /\ pc' = pc
    /\ UNCHANGED rest

CallStopRecording ==
    /\ pc \in {"get_frame", "stop_recording"}
    /\ recorder' = stop_recording(Entered(recorder))
    /\ ret' = None
    /\ pc' = "done"
    /\ UNCHANGED <<rest, now>>

NextRecorder == CallStartRecording \/ CallCutSegment \/ CallStopRecording

SpecRecorder == InitRecorder /\ [][NextRecorder]_vars

\* --------------------------------------------------------------- SpecClient
\* The MavlinkClient alone, after setup(): connect has succeeded or failed and,
\* over a connected link, the mission was downloaded; then update_state and
\* set_mode are called in any order, with any message and any mode table.

\* The controller's own state while a single unit is exercised.
ControllerIdle ==
    /\ searching = FALSE
    /\ trigger_wp = None
    /\ deadline = INITIAL_DEADLINE
    /\ frame = None
    /\ log = <<>>
    /\ sent = <<>>
    /\ exit = "running"
    /\ timedOut = FALSE
    /\ rearms = 0
    /\ dl = None
    /\ segment_start = 0
    /\ status = None
    /\ landings = 0
    /\ con = init_db
    /\ ncuts = 0
    /\ now = 0
    /\ ret = None
    /\ local = None

\* the mode names run() asks for
ModeNames == {"LOITER", "GUIDED", "AUTO"}

InitClient ==
    /\ ControllerIdle
    /\ recorder = VideoRecorder_init(0)
    /\ detector = RunwayDetector_init
    /\ setup_log = <<>>
    /\ pc = "get_frame"
    /\ \E openOk \in BOOLEAN, hb \in {"heartbeat", "timeout", "error"},
          listOk \in BOOLEAN, countOk \in BOOLEAN, cmds \in Missions :
         \E k \in 0..Len(cmds) :
           mavlink = download_mission(connect(MavlinkClient_init, openOk, hb),
                                      listOk, countOk, cmds, k)

idle == <<recorder, ctl, pc, now, frame, log, exit, hist, obs, detector,
          landings, con, ncuts>>

CallUpdateState ==
    /\ \E msg \in Msgs :
         /\ mavlink' = update_state(mavlink, msg)
         /\ local' = Some([fn |-> "update_state", msg |-> msg])
    /\ sent' = <<>>
    /\ ret' = None
    /\ UNCHANGED idle

CallSetMode ==
    /\ \E mapping \in ModeTables, mode_name \in ModeNames :
         /\ sent' = set_mode(mavlink, mapping, mode_name)
         /\ local' = Some([fn |-> "set_mode", mapping |-> mapping,
                           mode_name |-> mode_name])
    /\ ret' = None
    /\ UNCHANGED <<idle, mavlink>>

NextClient == CallUpdateState \/ CallSetMode

SpecClient == InitClient /\ [][NextClient]_vars

\* ------------------------------------------------------------- SpecDetector
\* The RunwayDetector and its helper alone: each step is one call with
\* arguments drawn from the sets below; local keeps the arguments, ret the
\* value returned.
InitDetector ==
    /\ ControllerIdle
    /\ recorder = VideoRecorder_init(0)
    /\ mavlink = MavlinkClient_init
    /\ detector = RunwayDetector_init
    /\ setup_log = <<>>
    /\ pc = "calibrate"

\* n in steps of one half, so that round meets ties
OddIntArgs ==
    {[fn |-> "_odd_int", n |-> h * (PX \div 2), min_val |-> lo, max_val |-> hi] :
       h \in (-2 * MaxN)..(2 * MaxN), lo \in 1..MaxN, hi \in 1..MaxN}

CallOddInt ==
    /\ \E a \in OddIntArgs :
         /\ a.min_val <= a.max_val
         /\ local' = Some(a)
         /\ ret' = Some(odd_int(a.n, a.min_val, a.max_val))
    /\ UNCHANGED <<idle, mavlink, sent>>

CallDetect ==
    /\ \E f \in DetectFrames \cup AngleFrames :
         /\ local' = Some([fn |-> "detect", frame |-> f])
         /\ ret' = detect(f)
    /\ UNCHANGED <<idle, mavlink, sent>>

\* the "Ring erzeugen" lines of detect, in either mode
CallRingSizes ==
    /\ \E width \in RingSides, height \in {20 * PX, 800 * PX}, by_target \in BOOLEAN :
         /\ local' = Some([fn |-> "ring_sizes", width |-> width,
                           height |-> height, by_target |-> by_target])
         /\ ret' = Some(ring_sizes(width, height, by_target))
    /\ UNCHANGED <<idle, mavlink, sent>>

NextDetector == CallOddInt \/ CallDetect \/ CallRingSizes

SpecDetector == InitDetector /\ [][NextDetector]_vars

\* ----------------------------------------------------------- SpecCalibration
\* RunwayDetector.calibrate step by step, for frames and timeout drawn from
\* 0..MaxFrames and 0..MaxTimeout. The clock now counts units of the 0.02 s
\* the loop sleeps when there is no frame. local keeps the arguments, t0, got
\* and the pooled samples; local.at is "loop" until the loop is left.
InitCalibration ==
    /\ ControllerIdle
    /\ recorder = VideoRecorder_init(0)
    /\ mavlink = MavlinkClient_init
    /\ detector = RunwayDetector_init
    /\ setup_log = <<>>
    /\ pc = "calibrate"

still == <<recorder, mavlink, ctl, pc, frame, log, sent, exit, hist, obs,
           landings, con, ncuts, ret>>

\* calibrate(get_frame, frames, timeout) up to the loop: t0 = time.time()
CalStart ==
    /\ local = None
    /\ ENABLE_CALIBRATION
    /\ \E frames \in 0..MaxFrames, timeout \in 0..MaxTimeout :
         local' = Some([fn |-> "calibrate", frames |-> frames,
                        timeout |-> timeout, t0 |-> now, got |-> 0,
                        at |-> "loop", samples |-> NoSamples])
    /\ UNCHANGED <<still, now, detector>>

sampling_oneMore(l, t) == l.got <= l.frames /\ (t - l.t0) < l.timeout

\* while got < frames and (time.time() - t0) < timeout
sampling(l, t) == l.got < l.frames /\ (t - l.t0) < l.timeout

\* One pass of the loop: without a frame it sleeps and continues; a frame is
\* sampled (taking dt) and counted.
CalSample ==
    /\ local # None /\ local[1].at = "loop"
    /\ sampling(local[1], now)
    /\ \/ /\ now' = now + 1
          /\ UNCHANGED local
       \/ \E dt \in 0..1 :
            /\ now' = now + dt
            /\ local' = Some([local[1] EXCEPT !.got = @ + 1])
    /\ UNCHANGED <<still, detector>>

\* After the loop: the samples are pooled (none when no frame was sampled) and
\* the thresholds assigned.
CalAssign ==
    /\ local # None /\ local[1].at = "loop"
    /\ ~sampling(local[1], now)
    /\ \E p \in Pooled :
         /\ local[1].got = 0 => p = NoSamples
         /\ detector' = calibrate(detector, p)
         /\ local' = Some([local[1] EXCEPT !.at = "done", !.samples = p])
    /\ UNCHANGED <<still, now>>

NextCalibration == CalStart \/ CalSample \/ CalAssign

SpecCalibration == InitCalibration /\ [][NextCalibration]_vars

\* every call made returns, so a step that can be taken is taken
FairCalibration == SpecCalibration /\ WF_vars(NextCalibration)

\* --------------------------------------------------------------- SpecTracker
\* The time tracker's database functions alone, called in any order on the
\* database init_db creates, with at most MaxTasks tasks and MaxEntries time
\* entries. local keeps the call, ret what it raised.
InitTracker ==
    /\ ControllerIdle
    /\ recorder = VideoRecorder_init(0)
    /\ mavlink = MavlinkClient_init
    /\ detector = RunwayDetector_init
    /\ setup_log = <<>>
    /\ pc = "done"

TaskNames == {<<" ">>, <<"a">>, <<" ", "a">>, <<"b">>}
TaskIds   == 1..MaxTasks
Planned   == {<<1, 30>>}
Durations == {<<0, 0>>, <<0, -5>>, <<0, 30>>}

apart == <<recorder, mavlink, ctl, pc, now, frame, log, sent, exit, hist, obs,
           detector, landings, ncuts>>

\* the call returned r: the database and the exception are kept
Returned(r) ==
    /\ Len(r.con.tasks) <= MaxTasks
    /\ Len(r.con.time_entries) <= MaxEntries
    /\ con' = r.con
    /\ ret' = r.raised

CallCreateTask ==
    /\ \E name \in TaskNames, d \in Planned :
         /\ Returned(create_task(con, name, d[1], d[2]))
         /\ local' = Some([fn |-> "create_task", name |-> name,
                           planned_hours |-> d[1], planned_minutes |-> d[2]])
    /\ UNCHANGED apart

CallStartTask ==
    /\ \E task_id \in TaskIds :
         /\ \E active \in IF active_entries(con) = {} THEN {None}
                           ELSE {Some(i) : i \in active_entries(con)} :
              Returned(start_task(con, task_id, active))
         /\ local' = Some([fn |-> "start_task", task_id |-> task_id])
    /\ UNCHANGED apart

CallStopTask ==
    /\ \E task_id \in TaskIds :
         /\ Returned(stop_task(con, task_id))
         /\ local' = Some([fn |-> "stop_task", task_id |-> task_id])
    /\ UNCHANGED apart

CallAddManualTime ==
    /\ \E task_id \in TaskIds, d \in Durations :
         /\ Returned(add_manual_time(con, task_id, d[1], d[2]))
         /\ local' = Some([fn |-> "add_manual_time", task_id |-> task_id,
                           hours |-> d[1], minutes |-> d[2]])
    /\ UNCHANGED apart

NextTracker == CallCreateTask \/ CallStartTask \/ CallStopTask \/ CallAddManualTime

SpecTracker == InitTracker /\ [][NextTracker]_vars

\* ==================================================================== claims
Range(q) == {q[i] : i \in 1..Len(q)}
Last(q) == q[Len(q)]
IsPrefix(p, q) == Len(p) <= Len(q) /\ \A i \in 1..Len(p) : p[i] = q[i]
Count(q, e) == Cardinality({i \in 1..Len(q) : q[i] = e})
InLoop == pc \notin {"start_camera", "start_recording", "connect", "autodetect",
                     "calibrate", "done"}
Aborted == exit \in {"interrupt", "error"}
Cuts == {"cut", "cut:land_start", "cut:landed"}

\* what the iteration did after its call of detect, the cut of the
\* mission-completion test left out
AfterDetect ==
    LET at == {i \in 1..Len(log) : log[i] = "detect"}
    IN  IF at = {} THEN <<>>
        ELSE SelectSeq(SubSeq(log, (CHOOSE i \in at : TRUE) + 1, Len(log)),
                       LAMBDA e : e # "cut:landed")

LandingWithOffset ==
    <<"cut:land_start", "set_mode:LOITER", "sleep:loiter", "get_pos:ok",
      "set_mode:GUIDED", "goto", "sleep:guided", "set_mode:AUTO", "do_land_start">>
LandingWithoutOffset ==
    <<"cut:land_start", "set_mode:LOITER", "sleep:loiter", "get_pos:none",
      "set_mode:AUTO", "do_land_start">>
LandingWithoutHeading ==
    <<"cut:land_start", "set_mode:LOITER", "sleep:loiter", "get_pos:nohdg",
      "set_mode:AUTO", "do_land_start">>
WireOrder == <<"LOITER", "GUIDED", "GOTO", "AUTO", "DO_LAND_START">>
WirePos(x) == CHOOSE i \in 1..Len(WireOrder) : WireOrder[i] = x

\* C1: an iteration whose detect call found a runway clears searching and
\* then performs the landing sequence in one fixed order, each step at most
\* once: cut "land_start", LOITER, settle wait, then GUIDED, goto and a settle
\* wait only when position and heading were read, then AUTO, then land-start.
\* At every moment what was done so far is a beginning of that sequence, the
\* iteration ends with the whole of it, and the messages on the link follow
\* the same order.
C1_LandingSequenceOrder ==
    LET did == AfterDetect
        landing == did # <<>> /\ did[1] # "search_timeout"
    IN  /\ Count(log, "detect") <= 1
        /\ landing =>
             /\ ~searching
             /\ mavlink.is_connected
             /\ \/ IsPrefix(did, LandingWithOffset)
                \/ IsPrefix(did, LandingWithoutOffset)
                \/ IsPrefix(did, LandingWithoutHeading)
             /\ (pc = "complete" \/ exit = "complete")
                   => did \in {LandingWithOffset, LandingWithoutOffset,
                               LandingWithoutHeading}
        /\ ~landing => sent = <<>>
        /\ \A i \in 1..Len(sent) : sent[i] \in Range(WireOrder)
        /\ \A i \in 1..(Len(sent) - 1) : WirePos(sent[i]) < WirePos(sent[i + 1])
        /\ "LOITER" \in Range(sent) => "set_mode:LOITER" \in Range(log)
        /\ "GUIDED" \in Range(sent) => "set_mode:GUIDED" \in Range(log)
        /\ "GOTO" \in Range(sent) => "goto" \in Range(log)
        /\ "AUTO" \in Range(sent) => "set_mode:AUTO" \in Range(log)
        /\ "DO_LAND_START" \in Range(sent) => "do_land_start" \in Range(log)

C1_Witness ==
    /\ pc = "complete"
    /\ AfterDetect = LandingWithOffset
    /\ sent = WireOrder
    /\ ~searching

\* C2: when the arming test of an iteration finds the link connected, a
\* trigger waypoint, the cached sequence equal to it and searching false, that
\* step sets searching and deadline = now + SEARCH_WINDOW_SEC, and it neither
\* touches the recorder nor sends anything; the arming test changes searching
\* and deadline in no other case.
C2_ArmsWithinTheTick ==
    [][(pc = "arm" /\ pc' # "done") =>
         IF /\ mavlink.is_connected
            /\ trigger_wp # None
            /\ mavlink.current_seq = trigger_wp[1]
            /\ ~searching
         THEN /\ searching'
              /\ deadline' = now + SEARCH_WINDOW_SEC
              /\ pc' = "detect"
              /\ recorder' = recorder
              /\ sent' = sent
              /\ log' = Append(log, "arm")
         ELSE UNCHANGED <<searching, deadline, recorder, sent, log>>]_vars

C2_Witness ==
    /\ pc = "detect"
    /\ Last(log) = "arm"
    /\ searching
    /\ deadline = now + SEARCH_WINDOW_SEC
    /\ sent = <<>>
    /\ Range(log) \cap Cuts = {}

\* C3: whenever run() has returned - after mission completion, after a fatal
\* setup failure, after a KeyboardInterrupt or another exception at any
\* statement - stop_recording has run: no writer is open; the interrupt or
\* exception itself sends nothing on the link; without a writer
\* stop_recording does nothing.
C3_TeardownAlways ==
    /\ [](pc = "done" =>
            /\ exit # "running"
            /\ recorder.nOpen = 0
            /\ recorder.writer # "open"
            /\ recorder.writer = "None" => recorder.trace = <<>>
            /\ recorder.writer # "None" => recorder.trace = << <<"release">>, <<"sync">> >>)
    /\ [][Aborted' => sent' = sent]_vars
    /\ [][pc = "done" => UNCHANGED vars]_vars

C3_Witness ==
    /\ pc = "done"
    /\ exit = "interrupt"
    /\ log # <<>>
    /\ Last(log) = "set_mode:LOITER"
    /\ recorder.trace = << <<"release">>, <<"sync">> >>
    /\ recorder.nOpen = 0

\* C4: at most one video writer is open, also during a call; self.writer is
\* open exactly when one is; a cut releases and syncs the current writer
\* before it tries the primary codec and then, only after a failure, the
\* fallback.
C4_OneSegmentOpen ==
    /\ recorder.nOpen \in {0, 1}
    /\ recorder.peak <= 1
    /\ (recorder.writer = "open") <=> (recorder.nOpen = 1)
    /\ (pc # "done" /\ log # <<>> /\ Last(log) \in Cuts) =>
         \/ recorder.trace = << <<"release">>, <<"sync">>, <<"open", "mp4v", TRUE>> >>
         \/ \E ok \in BOOLEAN :
              recorder.trace = << <<"release">>, <<"sync">>, <<"open", "mp4v", FALSE>>,
                                  <<"open", "MJPG", ok>> >>

C4_Witness ==
    /\ pc # "done"
    /\ log # <<>>
    /\ Last(log) = "cut"
    /\ recorder.trace = << <<"release">>, <<"sync">>, <<"open", "mp4v", FALSE>>,
                           <<"open", "MJPG", TRUE>> >>
    /\ recorder.nOpen = 1

\* C5: the step that ends an iteration ends the loop by mission completion
\* exactly when the link is connected, the mission list is not empty, the
\* cached sequence is at least the last index and searching is false; a run
\* that ended so made exactly one cut "landed", as the last call of its last
\* iteration, and stopped the recording after it; no other run cuts "landed".
C5_MissionCompletion ==
    /\ [][(pc = "complete" /\ ~Aborted') =>
            ((exit' = "complete") <=>
               /\ mavlink.is_connected
               /\ Len(mavlink.mission_waypoints) > 0
               /\ mavlink.current_seq >= Len(mavlink.mission_waypoints) - 1
               /\ ~searching)]_vars
    /\ [][(exit' = "complete" /\ exit # "complete") => pc = "complete"]_vars
    /\ [](exit = "complete" =>
            /\ pc = "done"
            /\ ~searching
            /\ Count(log, "cut:landed") = 1
            /\ Last(log) = "cut:landed"
            /\ recorder.nOpen = 0)
    /\ []("cut:landed" \in Range(log) => exit = "complete")

C5_Witness ==
    /\ exit = "complete"
    /\ pc = "done"
    /\ Last(log) = "cut:landed"

\* the waypoint before the first NAV_LAND item of a list: None when the list
\* has no NAV_LAND item or when its first NAV_LAND item is its first element
BeforeFirstLand(wps) ==
    LET lands == {i \in 1..Len(wps) : wps[i].command = "NAV_LAND"}
    IN  IF lands = {} THEN None
        ELSE LET first == CHOOSE j \in lands : \A l \in lands : j <= l
             IN  IF first > 1 THEN Some(wps[first - 1].seq) ELSE None

\* C6: the trigger waypoint found for the downloaded mission is the waypoint
\* immediately before the first NAV_LAND item, and None when there is no
\* NAV_LAND item or the first one is the first element of the list, whatever
\* follows it (stated for the runs whose link answered with a heartbeat).
C6_TriggerBeforeFirstLand ==
    mavlink.heartbeat => trigger_wp = BeforeFirstLand(mavlink.mission_waypoints)

\* C7: in the loop of a run whose link is not connected, every iteration
\* writes its frame first and rotates the segment when it is older than
\* SEGMENT_SECONDS, so that an iteration never ends with an older segment;
\* searching is never set, detect is never called, nothing is sent, no event
\* cut is made, and the run does not end by mission completion.
C7_DegradedMode ==
    (~mavlink.is_connected /\ (InLoop \/ (pc = "done" /\ recorder.cam /\ exit # "fatal"))) =>
        /\ ~searching
        /\ trigger_wp = None
        /\ deadline = INITIAL_DEADLINE
        /\ sent = <<>>
        /\ Range(log) \subseteq {"write", "update_state", "cut"}
        /\ log # <<>> => log[1] = "write"
        /\ pc \in {"update_state", "rotate", "arm", "complete"} => log # <<>>
        /\ pc = "complete" => now - recorder.last_segment_time <= SEGMENT_SECONDS
        /\ exit # "complete"

C7_Witness ==
    /\ ~mavlink.is_connected
    /\ pc = "complete"
    /\ log = <<"write", "update_state", "cut">>
    /\ now > SEGMENT_SECONDS
    /\ recorder.last_segment_time = now

\* C8: the client counts as connected only if connect received an initial
\* heartbeat within its wait; after a wait that timed out it is not
\* connected.
C8_ConnectedOnlyAfterHeartbeat ==
    mavlink.is_connected => mavlink.heartbeat

\* C9, as claimed: an iteration that ends a search by timeout clears
\* searching, sends nothing and makes no event-tagged cut.
C9_TimeoutNoEventCut ==
    "search_timeout" \in Range(log) =>
        /\ ~searching
        /\ sent = <<>>
        /\ Range(log) \cap {"cut:land_start", "cut:landed"} = {}

\* C9, amended: an iteration that ends a search by timeout clears searching,
\* sends nothing, calls no mode, goto or land-start command and makes no cut
\* "land_start"; the one event cut it can make is the cut "landed" of the
\* mission-completion test at its end, with which the run ends.
C9_TimeoutNoCommand ==
    "search_timeout" \in Range(log) =>
        /\ ~searching
        /\ sent = <<>>
        /\ Range(log) \subseteq
             {"write", "update_state", "cut", "detect", "search_timeout", "cut:landed"}
        /\ AfterDetect = <<"search_timeout">>
        /\ "cut:landed" \in Range(log) => exit = "complete"

C9_Witness ==
    /\ pc = "complete"
    /\ Last(log) = "search_timeout"
    /\ now > deadline
    /\ ~searching

\* C10: in the first iteration with a frame after one that ended a search by
\* timeout, if the cached sequence equals the trigger waypoint at the arming
\* test, searching is set again with deadline = now + SEARCH_WINDOW_SEC, later
\* than the deadline that ran out; nothing counts or limits these re-arms.
C10_RearmAfterTimeout ==
    [][(pc = "arm" /\ pc' # "done" /\ timedOut /\ mavlink.current_seq = trigger_wp[1]) =>
         /\ ~searching
         /\ searching'
         /\ deadline' = now + SEARCH_WINDOW_SEC
         /\ deadline' > deadline
         /\ now > deadline]_vars

C10_Witness ==
    /\ rearms = MaxRearm
    /\ pc = "detect"
    /\ searching
    /\ deadline = now + SEARCH_WINDOW_SEC
    /\ now > SEARCH_WINDOW_SEC

\* C11: when the camera does not start, or the first segment opens under
\* neither codec, setup() raises: run() ends as a fatal failure right there,
\* with no loop iteration, no connect, no mission download, no trigger
\* waypoint, no calibration, and with stop_recording done; setup() goes on to
\* connect only with a started camera and an open first segment, and a run
\* becomes fatal at no other statement.
C11_SetupAbort ==
    /\ [](exit = "fatal" =>
            /\ pc = "done"
            /\ \/ /\ setup_log = <<"start_camera">>
                  /\ ~recorder.cam
                  /\ recorder.writer = "None"
               \/ /\ setup_log = <<"start_camera", "start_recording">>
                  /\ recorder.cam
                  /\ recorder.writer = "released"
                  /\ recorder.trace = << <<"release">>, <<"sync">> >>
            /\ recorder.nOpen = 0
            /\ log = <<>> /\ frame = None /\ sent = <<>>
            /\ mavlink = MavlinkClient_init
            /\ dl = None
            /\ trigger_wp = None
            /\ ~searching)
    /\ []("connect" \in Range(setup_log) \/ pc = "connect" =>
            recorder.cam /\ exit # "fatal")
    /\ [](pc = "connect" => recorder.writer = "open" /\ recorder.nOpen = 1)
    /\ [][(exit' = "fatal" /\ exit # "fatal") =>
            /\ pc \in {"start_camera", "start_recording"}
            /\ pc = "start_camera" => ~recorder'.cam
            /\ pc = "start_recording" => recorder'.writer = "released"]_vars
    /\ [][exit = "fatal" => UNCHANGED vars]_vars

C11_Witness ==
    /\ exit = "fatal"
    /\ pc = "done"
    /\ recorder.cam
    /\ setup_log = <<"start_camera", "start_recording">>
    /\ recorder.writer = "released"
    /\ mavlink = MavlinkClient_init

\* C12: a run that ended as a fatal startup failure (no camera, or no first
\* segment under either codec) ends the process with a nonzero exit status.
C12_FatalExitsNonzero ==
    exit = "fatal" => (status # None /\ status[1] # 0)

\* C13, as claimed: without event cuts, a run of duration k*T + epsilon
\* (0 < epsilon < T) has made exactly k automatic cuts.
C13_ExactlyKCuts ==
    (now % SEGMENT_SECONDS # 0) => ncuts = now \div SEGMENT_SECONDS

\* C13, amended: without event cuts, a run of duration k*T + epsilon
\* (0 < epsilon <= T) has made at most k automatic cuts, and at least
\* (duration - T) / (T + d) when iterations are at most d apart: each cut is
\* made by the first iteration that finds the segment older than T (the one
\* before found it at most T old), restarts the age timer at its own time,
\* and so comes up to d late, which the following cuts inherit.
C13_AtMostKCuts ==
    /\ [](ncuts = 0 \/ ncuts * SEGMENT_SECONDS < now)
    /\ [](now <= ncuts * (SEGMENT_SECONDS + MaxDt) + SEGMENT_SECONDS)
    /\ [](now - recorder.last_segment_time <= SEGMENT_SECONDS)
    /\ [][(ncuts' # ncuts) <=>
            (now' - recorder.last_segment_time > SEGMENT_SECONDS)]_vars
    /\ [][(ncuts' # ncuts) =>
            /\ ncuts' = ncuts + 1
            /\ recorder'.last_segment_time = now'
            /\ recorder'.trace[1] = <<"release">>]_vars

C13_Witness ==
    /\ ncuts = 3
    /\ now = 3 * SEGMENT_SECONDS + 3
    /\ recorder.last_segment_time = now

\* the download kept fewer items than the vehicle announced, or got no count
IncompleteDownload ==
    /\ dl # None
    /\ \/ dl[1].count = None
       \/ Len(mavlink.mission_waypoints) < dl[1].count[1]

\* C14: after an incomplete or empty mission download setup() goes on, and
\* the one effect on the flight is that there is no waypoint-triggered
\* search: no trigger waypoint, no search, and the loop does not end before
\* the vehicle has reached the last item of its mission (stated for the runs
\* whose link answered with a heartbeat).
C14_IncompleteDownloadOnlyDisablesSearch ==
    (mavlink.heartbeat /\ IncompleteDownload) =>
        /\ exit \notin {"fatal"}
        /\ trigger_wp = None
        /\ ~searching
        /\ exit = "complete" =>
              /\ dl[1].count # None
              /\ mavlink.current_seq >= dl[1].count[1] - 1

\* C15: start_recording first tries the primary codec; it tries the fallback
\* codec once, and only when the primary did not open; it makes no third
\* attempt; it returns True exactly when one of its attempts opened a writer,
\* which self.writer then is, and only then it restarts the age timer.
C15_PrimaryThenOneFallback ==
    [][pc = "start_recording" =>
         LET tr == recorder'.trace
         IN  /\ Len(tr) \in {1, 2}
             /\ tr[1][1] = "open" /\ tr[1][2] = "mp4v"
             /\ (Len(tr) = 2) <=> ~tr[1][3]
             /\ Len(tr) = 2 => (tr[2][1] = "open" /\ tr[2][2] = "MJPG")
             /\ ret' # None
             /\ ret'[1] <=> (\E i \in 1..Len(tr) : tr[i][3])
             /\ ret'[1] <=> (recorder'.writer = "open")
             /\ recorder'.nOpen = (IF ret'[1] THEN 1 ELSE 0)
             /\ recorder'.last_segment_time =
                  (IF ret'[1] THEN now' ELSE recorder.last_segment_time)]_vars

C15_Witness ==
    /\ ret = Some(TRUE)
    /\ recorder.trace = << <<"open", "mp4v", FALSE>>, <<"open", "MJPG", TRUE>> >>
    /\ recorder.writer = "open"
    /\ recorder.last_segment_time = now
    /\ now > 0

FailedCut ==
    << <<"release">>, <<"sync">>, <<"open", "mp4v", FALSE>>, <<"open", "MJPG", FALSE>> >>

\* C16: a cut in the loop, timed or "land_start", whose two codec attempts
\* both fail does not end the run: the step raises nothing and goes on to the
\* next statement, the previous writer was released and synced before the
\* attempts, no writer is open afterwards, and the following iterations run
\* (their write goes to the unopened writer) until a later cut opens a writer
\* again.
C16_FailedCutNotFatal ==
    /\ [][(pc \in {"rotate", "land_cut"} /\ log' # log) =>
            /\ exit' = "running"
            /\ status' = None
            /\ pc' = (IF pc = "rotate" THEN "arm" ELSE "loiter")
            /\ recorder'.writer \in {"open", "unopened"}
            /\ recorder'.writer = "unopened" =>
                  (recorder'.trace = FailedCut /\ recorder'.nOpen = 0)]_vars
    /\ []((InLoop /\ recorder.writer = "unopened") =>
            /\ exit = "running"
            /\ recorder.nOpen = 0
            /\ recorder.trace = FailedCut)
    /\ [][(pc = "write" /\ recorder.writer = "unopened" /\ ~Aborted') =>
            /\ pc' = "update_state"
            /\ recorder' = recorder]_vars
    /\ [][(recorder.writer = "unopened" /\ recorder'.writer = "open") =>
            (pc \in {"rotate", "land_cut"} /\ log' # log)]_vars

C16_Witness ==
    /\ pc = "update_state"
    /\ log = <<"write">>
    /\ recorder.writer = "unopened"
    /\ recorder.trace = FailedCut
    /\ now > recorder.last_segment_time
    /\ exit = "running"

\* C17: in a landing sequence (offset enabled) whose position poll returned
\* nothing, or a position without heading, mode GUIDED is not set, no goto is
\* sent and the second settle wait does not happen; after LOITER and its
\* settle wait the sequence goes straight on to mode AUTO and land-start.
C17_OffsetSkippedWithoutFix ==
    (DO_GUIDED_OFFSET /\ Range(log) \cap {"get_pos:none", "get_pos:nohdg"} # {}) =>
        /\ Range(log) \cap {"set_mode:GUIDED", "goto", "sleep:guided"} = {}
        /\ Range(sent) \cap {"GUIDED", "GOTO"} = {}
        /\ \/ IsPrefix(AfterDetect, LandingWithoutOffset)
           \/ IsPrefix(AfterDetect, LandingWithoutHeading)
        /\ pc \in {"auto", "land_start", "complete", "done"}
        /\ (pc = "complete" \/ exit = "complete") =>
              AfterDetect \in {LandingWithoutOffset, LandingWithoutHeading}
        /\ (pc = "complete" /\ ROTATE_ON_EVENTS) =>
              now = segment_start + LOITER_SECONDS
        /\ (pc = "complete" /\ "AUTO" \in Range(sent)) =>
              sent \in {<<"LOITER", "AUTO", "DO_LAND_START">>,
                        <<"AUTO", "DO_LAND_START">>}

C17_Witness ==
    /\ pc = "complete"
    /\ AfterDetect = LandingWithoutHeading
    /\ sent = <<"LOITER", "AUTO", "DO_LAND_START">>
    /\ mavlink.heartbeat

\* C18: an iteration that got a frame writes it first, polls the telemetry
\* second and only then does anything else; it calls detect, at most once and
\* on that frame, exactly when searching is true after the arming test, and
\* never while searching is false; without a frame it does nothing.
C18_WriteThenPollThenDetect ==
    /\ [](log # <<>> =>
            /\ frame # None
            /\ log[1] = "write"
            /\ Count(log, "write") = 1
            /\ Len(log) >= 2 => log[2] = "update_state"
            /\ Count(log, "update_state") <= 1
            /\ Count(log, "detect") <= 1)
    /\ []((InLoop /\ pc # "get_frame") => frame # None)
    /\ [](pc = "detect" => (searching /\ frame # None))
    /\ [][(pc = "arm" /\ ~Aborted') =>
            /\ pc' = "detect" <=> searching'
            /\ pc' = "complete" <=> ~searching']_vars
    /\ [][(Count(log', "detect") > Count(log, "detect")) <=>
            (pc = "detect" /\ ~Aborted')]_vars
    /\ [][(pc = "get_frame" /\ frame' = None) => log' = <<>>]_vars

C18_Witness ==
    /\ pc = "complete"
    /\ log = <<"write", "update_state", "arm", "detect">>
    /\ searching
    /\ frame = Some(NoContour)

NewCut == Len(log') = Len(log) + 1 /\ Last(log') \in Cuts

\* C19: every cut_segment call, timed or event-tagged, with or without a
\* writer opened, sets the age timer to the time of the call, so the timer
\* always holds the time of the latest segment start or cut, and the rotation
\* test of an iteration cuts exactly when more than SEGMENT_SECONDS have
\* passed since then.
C19_EveryCutRestartsTimer ==
    /\ [](recorder.last_segment_time = segment_start)
    /\ [][NewCut => (recorder'.last_segment_time = now /\ segment_start' = now)]_vars
    /\ [][(segment_start' # segment_start) =>
            (NewCut \/ (pc = "start_recording" /\ recorder'.writer = "open"))]_vars
    /\ [][(pc = "rotate" /\ ~Aborted') =>
            ((log' = Append(log, "cut")) <=> (now - segment_start > SEGMENT_SECONDS))]_vars
    /\ [][(log' = Append(log, "cut")) => pc = "rotate"]_vars

C19_Witness ==
    /\ pc = "arm"
    /\ Last(log) = "cut"
    /\ mavlink.is_connected
    /\ recorder.writer = "unopened"
    /\ recorder.last_segment_time = now
    /\ now > SEGMENT_SECONDS

\* C20: the mission is downloaded once per run, by setup() before the first
\* iteration and only over a connected link, and not at all otherwise; the
\* download sends no request without a count and at most count requests with
\* one, none after the first request that got no item; it ends with at most
\* count waypoints, one per answered request; the list is never changed
\* after that.
C20_DownloadOnceBounded ==
    /\ [](Count(setup_log, "download_mission") <= 1)
    /\ []((dl # None) <=> ("download_mission" \in Range(setup_log)))
    /\ []((InLoop \/ pc = "calibrate") => ((dl # None) <=> mavlink.is_connected))
    /\ [](dl = None => mavlink.mission_waypoints = <<>>)
    /\ [](dl # None =>
            LET d == dl[1]
                n == Len(mavlink.mission_waypoints)
            IN  /\ mavlink.is_connected
                /\ d.count = None => (d.requests = 0 /\ n = 0)
                /\ d.count # None =>
                      /\ d.requests <= d.count[1]
                      /\ n <= d.count[1]
                      /\ n < d.count[1] => d.requests = n + 1
                      /\ n = d.count[1] => d.requests = n)
    /\ [][(dl' # dl \/ mavlink'.mission_waypoints # mavlink.mission_waypoints) =>
            (pc = "autodetect" /\ dl = None /\ log = <<>> /\ frame = None)]_vars

C20_Witness ==
    /\ dl = Some([count |-> Some(3), requests |-> 2])
    /\ Len(mavlink.mission_waypoints) = 1
    /\ pc = "update_state"
    /\ now > 0

Calls(fn) == local' # None /\ local'[1].fn = fn

\* C21: update_state sets the cached sequence to the sequence of the message
\* it got when the link is connected and that message is a MISSION_CURRENT;
\* without a link, without a message and for a HEARTBEAT it leaves the whole
\* client as it was; it never changes another field and sends nothing.
C21_UpdateStateOnlyMissionCurrent ==
    [][Calls("update_state") =>
         LET msg == local'[1].msg
         IN  /\ IF mavlink.is_connected /\ msg.type = "MISSION_CURRENT"
                THEN mavlink'.current_seq = msg.seq
                ELSE mavlink' = mavlink
             /\ mavlink' = [mavlink EXCEPT !.current_seq = mavlink'.current_seq]
             /\ sent' = <<>>]_vars

C21_Witness ==
    /\ local = Some([fn |-> "update_state", msg |-> Heartbeat])
    /\ mavlink.is_connected
    /\ mavlink.current_seq = MaxSeq

\* C22: set_mode sends the mode change exactly when the link is connected and
\* the mode name is in the mode table the vehicle reports; otherwise it sends
\* nothing and just returns; it changes nothing in the client.
C22_SetModeIffKnown ==
    [][Calls("set_mode") =>
         LET a == local'[1]
         IN  /\ (sent' # <<>>) <=> (mavlink.is_connected /\ a.mode_name \in a.mapping)
             /\ sent' \in {<<>>, <<a.mode_name>>}
             /\ mavlink' = mavlink
             /\ ret' = None
             /\ exit' = "running"]_vars

C22_Witness ==
    /\ local = Some([fn |-> "set_mode", mapping |-> {"LOITER"}, mode_name |-> "AUTO"])
    /\ mavlink.is_connected
    /\ mavlink.heartbeat
    /\ sent = <<>>

Called(fn) == local # None /\ local[1].fn = fn

\* n clamped to [lo, hi]
Clamped(n, lo, hi) == IF n < lo THEN lo ELSE IF n > hi THEN hi ELSE n

PassedGeometry(f) ==
    /\ f.cnts
    /\ f.area >= MIN_WHITE_AREA
    /\ Max(f.width, f.height) >= ASPECT_MIN * Max(PX, Min(f.width, f.height))
    /\ Min(Abs(f.angle), Abs(Abs(f.angle) - 90)) <= ANGLE_TOL_DEG

\* C24: a candidate that passed the geometry tests is rejected when its ring
\* is empty; otherwise it is accepted iff the green share of the ring reaches
\* the green minimum or the gray share the gray minimum (40% green and no
\* gray is accepted, 10% green and 10% gray is rejected).
C24_RingAcceptsEitherRatio ==
    (Called("detect") /\ PassedGeometry(local[1].frame)) =>
        LET f == local[1].frame
        IN  /\ f.rp = 0 => ret = None
            /\ f.rp > 0 =>
                 (ret # None <=> (\/ f.gp * 100 >= MIN_GREEN_PCT * f.rp
                                  \/ f.gr * 100 >= MIN_GRAY_PCT * f.rp))
            /\ (f.rp = 1000 /\ f.gp = 400 /\ f.gr = 0) => ret # None
            /\ (f.rp = 1000 /\ f.gp = 100 /\ f.gr = 100) => ret = None

\* accepted on the gray share alone
C24_Witness ==
    /\ Called("detect")
    /\ local[1].frame.rp = 1000
    /\ local[1].frame.gp = 0
    /\ local[1].frame.gr = 350
    /\ ret # None

\* C25: detect returns None or the rectangle of the frame's largest contour,
\* whose long side is at least ASPECT_MIN times its short side (also when
\* the short side is below one pixel) and whose contour area is at least
\* MIN_WHITE_AREA.
C25_ReturnedRectIsElongated ==
    (Called("detect") /\ ret # None) =>
        LET f == local[1].frame
            rect == ret[1]
        IN  /\ rect.width = f.width /\ rect.height = f.height
            /\ Max(rect.width, rect.height)
                 >= ASPECT_MIN * Min(rect.width, rect.height)
            /\ f.area >= MIN_WHITE_AREA

\* a rectangle accepted with a short side below one pixel
C25_Witness ==
    /\ Called("detect")
    /\ ret # None
    /\ Min(ret[1].width, ret[1].height) < PX
    /\ Min(ret[1].width, ret[1].height) > 0

Calibrated == Called("calibrate") /\ local[1].at = "done"

\* C26: after calibrate, the threshold components of a category with at most
\* 1000 pooled samples are the defaults; when no frame was sampled, the white
\* and green low/high thresholds are the four defaults.
C26_FewSamplesKeepDefaults ==
    Calibrated =>
        LET p == local[1].samples
        IN  /\ p.white_n <= 1000 =>
                 /\ detector.white_low = DEFAULT_WHITE_LOW
                 /\ detector.white_high = DEFAULT_WHITE_HIGH
            /\ p.green_n <= 1000 =>
                 /\ detector.green_low = DEFAULT_GREEN_LOW
                 /\ detector.green_high = DEFAULT_GREEN_HIGH
            /\ local[1].got = 0 => detector = RunwayDetector_init

\* exactly 1000 white samples of a bright scene leave the white defaults,
\* while 1001 green samples move the green thresholds
C26_Witness ==
    /\ Calibrated
    /\ local[1].samples.white_n = 1000
    /\ local[1].samples.v80 = 250
    /\ local[1].samples.green_n = 1001
    /\ detector.white_low = DEFAULT_WHITE_LOW
    /\ detector.green_low # DEFAULT_GREEN_LOW

\* C30: the sampling loop of calibrate ends. A pass is made only while fewer
\* than `frames` frames are sampled and less than `timeout` has elapsed, the
\* loop is left only when one of the two no longer holds, got never exceeds
\* frames, and the thresholds are assigned in the end, also when get_frame
\* returns None on every call.
C30_SamplingLoopTerminates ==
    /\ [](Called("calibrate") => local[1].got <= local[1].frames)
    /\ [][(local # None /\ local' # None) =>
            /\ (local'[1].got # local[1].got \/ now' # now) =>
                 /\ local[1].got < local[1].frames
                 /\ now - local[1].t0 < local[1].timeout
                 /\ local'[1].got \in {local[1].got, local[1].got + 1}
            /\ (local[1].at = "loop" /\ local'[1].at = "done") =>
                 \/ local[1].got = local[1].frames
                 \/ now - local[1].t0 >= local[1].timeout]_vars
    /\ <>Calibrated

\* get_frame returned None on every call and the loop ended on the timeout
C30_Witness ==
    /\ Calibrated
    /\ local[1].frames = MaxFrames
    /\ local[1].got = 0
    /\ local[1].timeout = MaxTimeout
    /\ now - local[1].t0 = MaxTimeout

\* C27: a landing sequence does not disarm the trigger. In every later
\* iteration whose arming test finds the link connected, the cached sequence
\* equal to the trigger waypoint and searching false, searching is set again
\* with a new, later deadline and detect runs; a detection then performs the
\* whole landing sequence again, land-start command included.
C27_LandingDoesNotDisarm ==
    /\ [][(/\ pc = "arm" /\ pc' # "done"
            /\ landings > 0
            /\ mavlink.is_connected
            /\ trigger_wp # None
            /\ mavlink.current_seq = trigger_wp[1]
            /\ ~searching) =>
              /\ searching'
              /\ deadline' = now + SEARCH_WINDOW_SEC
              /\ deadline' > deadline
              /\ pc' = "detect"]_vars
    /\ [][(pc = "detect" /\ pc' # "done" /\ landings > 0
            /\ detect(frame[1]) # None) => pc' = "land_cut"]_vars
    /\ []((landings > 0 /\ pc = "complete" /\ "detect" \in Range(log)
            /\ ~timedOut /\ ~searching) =>
              /\ AfterDetect \in {LandingWithOffset, LandingWithoutOffset,
                                  LandingWithoutHeading}
              /\ "DO_LAND_START" \in Range(sent))

\* a second landing sequence about to send its land-start command
C27_Witness ==
    /\ landings = MaxLandings
    /\ pc = "land_start"
    /\ "set_mode:LOITER" \in Range(log)
    /\ "AUTO" \in Range(sent)

\* C28: a landing sequence is started only by a detection on a frame processed
\* no later than the deadline of the current search; no command goes out for
\* a frame processed after it.
C28_NoLandingAfterDeadline ==
    /\ [][(pc = "detect" /\ pc' = "land_cut") => now <= deadline]_vars
    /\ [][(sent' # sent /\ sent' # <<>>) => "detect" \in Range(log)]_vars

SetupWithLink ==
    <<"start_camera", "start_recording", "connect", "autodetect_trigger_wp",
      "download_mission", "calibrate">>
SetupWithoutLink == <<"start_camera", "start_recording", "connect", "calibrate">>

\* C29: setup starts the camera, opens the first segment, connects, downloads
\* the mission and looks for the trigger waypoint exactly when connected, and
\* calibrates, in this order; calibration runs with or without link and
\* trigger waypoint, and no loop iteration starts before it has returned.
C29_SetupOrder ==
    /\ IsPrefix(setup_log, SetupWithLink) \/ IsPrefix(setup_log, SetupWithoutLink)
    /\ "download_mission" \in Range(setup_log) => mavlink.is_connected
    /\ "calibrate" \in Range(setup_log) =>
          (mavlink.is_connected <=> "download_mission" \in Range(setup_log))
    /\ InLoop => setup_log \in {SetupWithLink, SetupWithoutLink}
    /\ pc \in {"start_camera", "start_recording", "connect", "autodetect",
                "calibrate"} => (frame = None /\ log = <<>>)
    /\ pc = "calibrate" =>
          setup_log \in {SubSeq(SetupWithLink, 1, 5), SubSeq(SetupWithoutLink, 1, 3)}

\* the loop runs its first iteration after a setup that connected and found
\* no trigger waypoint
C29_Witness ==
    /\ pc = "write"
    /\ setup_log = SetupWithLink
    /\ mavlink.is_connected
    /\ trigger_wp = None
    /\ detector # RunwayDetector_init

\* C31: the thresholds are those of the constructor until calibrate assigns
\* them; calibrate runs once, as the last step of setup, and from the first
\* loop iteration to the end of the run no step changes them, a call of
\* detect included.
C31_ThresholdsFixedAfterSetup ==
    /\ [][detector' # detector => (pc = "calibrate" /\ pc' = "get_frame")]_vars
    /\ [][InLoop => detector' = detector]_vars
    /\ [](Count(setup_log, "calibrate") <= 1)
    /\ []("calibrate" \notin Range(setup_log) => detector = RunwayDetector_init)
    /\ [](InLoop => \E p \in SetupSamples :
                       detector = calibrate(RunwayDetector_init, p))

\* detect has run on a frame, with thresholds calibrate moved off the defaults
C31_Witness ==
    /\ pc = "complete"
    /\ "detect" \in Range(log)
    /\ detector # RunwayDetector_init

\* C32: an iteration in which get_frame returns None only lets time pass: no
\* frame is written, telemetry is not polled, no segment is cut, searching
\* and deadline stay, nothing is sent, and the loop goes on with the next
\* get_frame.
C32_NoFrameNoEffect ==
    [][(pc = "get_frame" /\ pc' # "done" /\ frame' = None) =>
         /\ pc' = "get_frame"
         /\ now' >= now
         /\ UNCHANGED <<recorder, mavlink, searching, trigger_wp, deadline,
                        log, sent, exit, frame, segment_start, status,
                        detector, landings>>]_vars

\* the loop waited without a frame for longer than a segment lasts: the
\* rotation is overdue and has not been looked at
C32_Witness ==
    /\ pc = "get_frame"
    /\ recorder.cam
    /\ exit = "running"
    /\ landings = 0
    /\ recorder.last_segment_time = 0
    /\ now = SEARCH_WINDOW_SEC + 1

\* C33: in both ring modes and for every rectangle, the outer and the inner
\* kernel size are odd, the outer one is at least 5 (and at most 151 when
\* scaled by the target), the inner one at least 3 and at most the outer one
\* minus 2.
C33_RingKernelSizes ==
    Called("ring_sizes") =>
        LET outer_sz == ret[1][1]
            inner_sz == ret[1][2]
        IN  /\ outer_sz % 2 = 1 /\ inner_sz % 2 = 1
            /\ outer_sz >= 5
            /\ local[1].by_target => outer_sz <= 151
            /\ inner_sz >= 3
            /\ inner_sz <= outer_sz - 2

\* a short side of 32.5 px: the base 6.5 is a tie that rounds to 6, made 7
C33_Witness ==
    /\ Called("ring_sizes")
    /\ local[1].by_target
    /\ local[1].width = 32 * PX + PX \div 2
    /\ ret = Some(<<7, 3>>)

\* C34: searching is set only with a connected link and a trigger waypoint,
\* and no step changes the deadline while searching stays set: a further
\* report of the trigger sequence does not extend the running search.
C34_SearchNeedsLinkAndKeepsDeadline ==
    /\ [](searching => (mavlink.is_connected /\ trigger_wp # None))
    /\ [][(searching /\ searching') => deadline' = deadline]_vars

\* a later iteration of a running search, the sequence still at the trigger
\* waypoint: the arming test has left the deadline of the first iteration
C34_Witness ==
    /\ searching
    /\ pc = "detect"
    /\ mavlink.current_seq = trigger_wp[1]
    /\ "arm" \notin Range(log)
    /\ now > 0
    /\ deadline < now + SEARCH_WINDOW_SEC

\* C35: the loop does not end by mission completion before a first
\* MISSION_CURRENT was received: while the cached sequence is the initial -1,
\* the completion test is false whatever the mission list, and the step that
\* ends the iteration starts the next one.
C35_NoCompletionBeforeFirstReport ==
    /\ [](mavlink.current_seq = INITIAL_SEQ =>
            /\ ~mission_done(mavlink, searching)
            /\ exit # "complete")
    /\ [][(pc = "complete" /\ pc' # "get_frame") =>
            (Aborted' \/ mavlink.current_seq >= 0)]_vars

\* an iteration ends with a one-item mission list and no report so far
C35_Witness ==
    /\ pc = "complete"
    /\ mavlink.is_connected
    /\ Len(mavlink.mission_waypoints) = 1
    /\ mavlink.current_seq = INITIAL_SEQ
    /\ ~searching

\* C36: searching is set only by the arming test of an iteration whose cached
\* sequence equals the trigger waypoint. A run whose cached sequence passes
\* the trigger waypoint without an arming test seeing it equal never sets
\* searching (the deadline keeps its initial value), never calls detect and
\* sends nothing.
C36_ArmedOnlyOnEquality ==
    /\ [][(~searching /\ searching') =>
            /\ pc = "arm"
            /\ trigger_wp # None
            /\ mavlink.current_seq = trigger_wp[1]]_vars
    /\ [](deadline = INITIAL_DEADLINE =>
            /\ ~searching
            /\ sent = <<>>
            /\ "detect" \notin Range(log)
            /\ landings = 0)
    /\ [][deadline' # deadline =>
            (trigger_wp # None /\ mavlink.current_seq = trigger_wp[1])]_vars

\* the reports skipped the trigger waypoint: the cached sequence is beyond it
\* at the end of an iteration and the search was never armed
C36_Witness ==
    /\ pc = "complete"
    /\ mavlink.is_connected
    /\ trigger_wp # None
    /\ mavlink.current_seq > trigger_wp[1]
    /\ deadline = INITIAL_DEADLINE
    /\ frame = Some(Strip)

\* C37: for every angle from -90 to 90 degrees the normalized angle
\* min(|angle|, ||angle| - 90|) is at most 45, below ANGLE_TOL_DEG: a frame
\* that passes the other tests of detect is accepted under every angle.
C37_AngleGuardNeverRejects ==
    (Called("detect") /\ local[1].frame.angle \in -90..90) =>
        LET f == local[1].frame
            a == Min(Abs(f.angle), Abs(Abs(f.angle) - 90))
        IN  /\ a <= 45
            /\ a <= ANGLE_TOL_DEG
            /\ (/\ f.cnts
                 /\ f.area >= MIN_WHITE_AREA
                 /\ Max(f.width, f.height) >= ASPECT_MIN * Max(PX, Min(f.width, f.height))
                 /\ f.rp > 0
                 /\ (\/ f.gp * 100 >= MIN_GREEN_PCT * f.rp
                     \/ f.gr * 100 >= MIN_GRAY_PCT * f.rp)) => ret # None

\* the strip at 75 degrees, beyond the tolerance before normalization
C37_Witness ==
    /\ Called("detect")
    /\ local[1].frame.angle = 75
    /\ ret # None

\* the running entries: end_time unset and manual_minutes = 0
Running(db) ==
    {i \in 1..Len(db.time_entries) :
        db.time_entries[i].end_time = "NULL" /\ db.time_entries[i].manual_minutes = 0}

\* C38: in the time tracker at most one entry is running at any time.
\* start_task for another task than the running one raises and changes
\* nothing, for the running task it returns and changes nothing, and with no
\* running entry it adds exactly one running entry; add_manual_time adds only
\* entries with manual_minutes > 0, which never count as running.
C38_AtMostOneRunningEntry ==
    /\ [](Cardinality(Running(con)) <= 1)
    /\ [](\A i \in 1..Len(con.time_entries) :
            con.time_entries[i].start_time = "NULL" =>
                (con.time_entries[i].manual_minutes > 0 /\ i \notin Running(con)))
    /\ [][Calls("start_task") =>
            IF Running(con) = {}
            THEN /\ ret' = None
                 /\ Len(con'.time_entries) = Len(con.time_entries) + 1
                 /\ Running(con') = {Len(con'.time_entries)}
                 /\ con'.time_entries[Len(con'.time_entries)].task_id = local'[1].task_id
            ELSE /\ con' = con
                 /\ ret' = IF \E i \in Running(con) :
                                con.time_entries[i].task_id = local'[1].task_id
                           THEN None ELSE Some("RuntimeError")]_vars
    /\ [][Calls("add_manual_time") => Running(con') = Running(con)]_vars

\* task 2 was refused while task 1 is running beside a manual entry
C38_Witness ==
    /\ Called("start_task")
    /\ local[1].task_id = 2
    /\ ret = Some("RuntimeError")
    /\ Cardinality(Running(con)) = 1
    /\ \E i \in 1..Len(con.time_entries) : con.time_entries[i].manual_minutes > 0

====
